---- MODULE Spec2Model ----
(***************************************************************************)
(* Model of the synchronisation core of the video player:                  *)
(*   - CircularAudioBuffer (utils/CircularBuffer)                          *)
(*   - AudioClock and AudioManager (feeder thread, seek protocol)          *)
(*   - SyncMessage / UDPSyncServer / SyncManager (network sync)            *)
(*                                                                         *)
(* The specifications of the module:                                       *)
(*   RingSpec      sequential write/read/clear calls on one ring buffer    *)
(*   AudioSpec     feeder thread, audio callback and presentation thread   *)
(*   ObserverSpec  AudioSpec with get_buffer_size() polled as well         *)
(*   NetSpec       UDP receive loop, membership table, SyncManager         *)
(* Variables a specification does not use stay at their initial value.     *)
(***************************************************************************)
EXTENDS Integers, Sequences, FiniteSets, TLC

(***************************************************************************)
(* Bounds of the model                                                     *)
(***************************************************************************)
\* largest ring-buffer capacity tried by RingSpec
MaxCap == 4
\* longest byte string handed to one write()/read() call in RingSpec
MaxLen == 3
\* most bytes accepted between two clear() calls in RingSpec
MaxAccepted == 6

\* Byte counts of the audio path are scaled down so that the buffer holds
\* one and a half chunks and one callback drains two thirds of a full buffer.
\* AUDIO_BUFFER_SIZE = 192000
AUDIO_BUFFER_SIZE == 4
\* the literal 4096 of fill_audio_buffer (about 2% of the buffer)
FILL_ROOM == 0
\* len of one audio callback (1024 samples of 4 bytes)
CALLBACK_LEN == 2
\* most cached chunks
MaxChunks == 2
\* most sync_to_position calls in one run
MaxSyncCalls == 2

\* times are counted in units of 10 ms
\* AUDIO_SYNC_THRESHOLD = 0.040 s
AUDIO_SYNC_THRESHOLD == 4
\* the literal 0.05 s of handle_audio_seek
SEEK_MARGIN == 5

\* chunk timestamps, chunk sizes, seek positions and video times tried
PtsValues == {0, 10}
ChunkSizes == {2}
Positions == {4, 14}
VideoTimes == {10}

\* SyncManager::my_client_id (generate_client_id) and the ids of the peers
my_client_id == 1
PeerIds == {2}
ClientIds == {my_client_id} \cup PeerIds
\* client names (the bytes of client_name before the padding)
Names == {<<65>>, <<66>>}
\* the steady clock counts half seconds
TICKS_PER_SECOND == 2
CLIENT_TIMEOUT_SECONDS == 30
\* NetSpec advances the clock 10 s at a time, MaxNow times at most
COARSE_TICK == 10 * TICKS_PER_SECOND
MaxNow == 4
\* SweepSpec advances it half a second at a time, up to MaxSweepSeconds
MaxSweepSeconds == 32
\* most callbacks recorded in one run
MaxCallbacks == 2

\* size_t arithmetic is modular; a 16-bit word is wide enough for every
\* value of the model and keeps an unsigned underflow visible
SIZE_MOD == 2^16

SizeT(x) == x % SIZE_MOD

Min(a, b) == IF a <= b THEN a ELSE b

\* byte values written in RingSpec
Bytes == {1, 2}

BoundedSeq(S, n) == UNION {[1..k -> S] : k \in 0..n}

IsPrefix(s, t) == /\ Len(s) <= Len(t)
                  /\ \A i \in 1..Len(s) : s[i] = t[i]

VARIABLES
    \* ---- CircularAudioBuffer ----
    capacity,       \* size_t capacity
    buffer,         \* std::vector<uint8_t> buffer, indexed 0..capacity-1
    write_pos,      \* std::atomic<size_t> write_pos
    read_pos,       \* std::atomic<size_t> read_pos
    \* ---- history of the ring buffer (RingSpec) ----
    accepted,       \* bytes accepted by write() since the last clear()
    returned,       \* bytes returned by read() since the last clear()
    last_op,        \* the last call made and what it returned, and the
                    \* bytes that the last clear() found buffered
    \* ---- AudioManager ----
    buffer_mutex,         \* holder of CircularAudioBuffer::buffer_mutex
    audio_frame_cache,    \* cached chunks, each [pts, size]
    audio_cache_index,    \* size_t audio_cache_index (0-based)
    seek_requested,       \* std::atomic<bool> seek_requested
    seek_target,          \* std::atomic<double> seek_target
    current_video_time,   \* std::atomic<double> current_video_time
    audio_thread_running, \* std::atomic<bool> audio_thread_running
    audio_should_stop,    \* std::atomic<bool> audio_should_stop
    \* ---- AudioClock ----
    clock_pts,            \* std::atomic<double> pts
    clock_base,           \* base_time
    now,                  \* the wall clock
    \* ---- feeder thread (audio_thread_func) ----
    f_pc,                 \* position of the feeder thread
    f_target,             \* local target of handle_audio_seek
    f_video_time,         \* local video_time of fill_audio_buffer
    \* ---- audio device thread (audio_callback_wrapper) ----
    cb_pc,                \* position of the callback
    cb_bytes,             \* local bytes_read
    cb_time,              \* local current_audio_time
    \* ---- presentation thread (VideoPlayer) ----
    p_pc,                 \* position of the presentation thread
    p_position,           \* argument of the running sync_to_position call
    p_w,                  \* write_pos as loaded by available_read()
    p_ret,                \* value returned by get_buffer_size()
    \* ---- history of the audio path ----
    fill_level,           \* bytes written and not yet read or cleared
    p_fills,              \* fill levels that existed during the running get_buffer_size()
    sync_calls,           \* sync_to_position calls that stored a request
    reloc_target          \* target of the last relocation, -1 before the first

ringVars == <<capacity, buffer, write_pos, read_pos>>
ringHist == <<accepted, returned, last_op>>

(***************************************************************************)
(* CircularAudioBuffer                                                     *)
(***************************************************************************)
\* available_read(): loads write_pos, then read_pos
available_read(w, r) == IF w >= r THEN w - r ELSE capacity - r + w

\* available_write(): one byte is left unused to tell full from empty
available_write(w, r) == SizeT(capacity - available_read(w, r) - 1)

write_copy_mut(buf, w_pos, data, to_write) ==
    IF w_pos + to_write <= capacity
    THEN [i \in 0..(capacity - 1) |->
            IF i >= w_pos /\ i < w_pos + to_write
            THEN data[i - w_pos + 1] ELSE buf[i]]
    ELSE LET first_chunk == capacity - w_pos
         IN  [i \in 0..(capacity - 1) |->
                IF i >= w_pos THEN data[i - w_pos + 1]
                ELSE IF i < to_write - first_chunk
                     THEN data[i + 1]
                     ELSE buf[i]]

\* the two memcpy branches of write()
write_copy(buf, w_pos, data, to_write) ==
    IF w_pos + to_write <= capacity
    THEN [i \in 0..(capacity - 1) |->
            IF i >= w_pos /\ i < w_pos + to_write
            THEN data[i - w_pos + 1] ELSE buf[i]]
    ELSE LET first_chunk == capacity - w_pos
         IN  [i \in 0..(capacity - 1) |->
                IF i >= w_pos THEN data[i - w_pos + 1]
                ELSE IF i < to_write - first_chunk
                     THEN data[first_chunk + i + 1]
                     ELSE buf[i]]

\* the two memcpy branches of read(): the bytes copied out
read_copy(buf, r_pos, to_read) ==
    IF r_pos + to_read <= capacity
    THEN [k \in 1..to_read |-> buf[r_pos + k - 1]]
    ELSE LET first_chunk == capacity - r_pos
         IN  [k \in 1..to_read |->
                IF k <= first_chunk THEN buf[r_pos + k - 1]
                ELSE buf[k - first_chunk - 1]]

write_advance_mut(w_pos, to_write) == w_pos + to_write
\* write_pos.store((w_pos + to_write) % capacity)
write_advance(w_pos, to_write) == (w_pos + to_write) % capacity

\* read_pos.store((r_pos + to_read) % capacity)
read_advance(r_pos, to_read) == (r_pos + to_read) % capacity

\* a write that refuses the data that do not fit
write_count_mut(data) ==
    IF Len(data) > available_write(write_pos, read_pos) THEN 0 ELSE Len(data)
\* size_t to_write = std::min(size, available)
write_count(data) == Min(Len(data), available_write(write_pos, read_pos))

\* a read that does not look at what is buffered
read_count_mut(size) == Min(size, capacity - 1)
\* size_t to_read = std::min(size, available)
read_count(size) == Min(size, available_read(write_pos, read_pos))

\* CircularAudioBuffer::write, the whole call (it holds buffer_mutex)
write(data) ==
    /\ buffer' = write_copy(buffer, write_pos, data, write_count(data))
    /\ write_pos' = write_advance(write_pos, write_count(data))
    /\ UNCHANGED <<capacity, read_pos>>

\* CircularAudioBuffer::read, the whole call (it holds buffer_mutex)
read(size) ==
    /\ read_pos' = read_advance(read_pos, read_count(size))
    /\ UNCHANGED <<capacity, buffer, write_pos>>

\* a clear() that rewinds the write cursor only
clear_mut ==
    /\ write_pos' = 0
    /\ UNCHANGED <<capacity, buffer, read_pos>>

\* CircularAudioBuffer::clear, the whole call (it holds buffer_mutex)
clear ==
    /\ write_pos' = 0
    /\ read_pos' = 0
    /\ UNCHANGED <<capacity, buffer>>

(***************************************************************************)
(* AudioClock                                                              *)
(***************************************************************************)
\* AudioClock::get(): pts plus the wall-clock time since base_time
clock_get == clock_pts + (now - clock_base)

\* AudioClock::set(timestamp): stores pts and re-anchors base_time
clock_set(timestamp) ==
    /\ clock_pts' = timestamp
    /\ clock_base' = now

(***************************************************************************)
(* AudioManager                                                            *)
(***************************************************************************)
\* const size_t MIN_BUFFER_SIZE = AUDIO_BUFFER_SIZE / 4
MIN_BUFFER_SIZE == AUDIO_BUFFER_SIZE \div 4

\* caches the decoder can produce: MaxChunks chunks, timestamps in decode
\* order
Caches ==
    {c \in [1..MaxChunks -> [pts : PtsValues, size : ChunkSizes]] :
        \A i \in 1..(Len(c) - 1) : c[i].pts <= c[i + 1].pts}

\* the payload of the chunk at 0-based index idx, every byte tagged idx + 1
chunk_data(idx) == [k \in 1..audio_frame_cache[idx + 1].size |-> idx + 1]

\* time credited for bytes_read consumed bytes (one unit per byte here)
time_played(bytes_read) == bytes_read

seek_index_mut(cache, target) ==
    IF \E i \in 1..Len(cache) : cache[i].pts >= target
    THEN (CHOOSE i \in 1..Len(cache) :
             /\ cache[i].pts >= target
             /\ \A j \in 1..(i - 1) : cache[j].pts < target) - 1
    ELSE 0

seek_index_first(cache, target) == 0

\* a search that ends at the end of the cache when no chunk is found
seek_index_last(cache, target) ==
    IF \E i \in 1..Len(cache) : cache[i].pts >= target - SEEK_MARGIN
    THEN (CHOOSE i \in 1..Len(cache) :
             /\ cache[i].pts >= target - SEEK_MARGIN
             /\ \A j \in 1..(i - 1) : cache[j].pts < target - SEEK_MARGIN) - 1
    ELSE Len(cache)

\* the search loop of handle_audio_seek: the first chunk at or after
\* target - 0.05, index 0 when there is none
seek_index(cache, target) ==
    IF \E i \in 1..Len(cache) : cache[i].pts >= target - SEEK_MARGIN
    THEN (CHOOSE i \in 1..Len(cache) :
             /\ cache[i].pts >= target - SEEK_MARGIN
             /\ \A j \in 1..(i - 1) : cache[j].pts < target - SEEK_MARGIN) - 1
    ELSE 0

\* Locals of a function are reset to 0 when the function returns: their
\* values are dead from then on.

\* a change of the fill level is seen by a get_buffer_size() call in progress
NoteFill(level) ==
    p_fills' = IF p_pc \in {"gbs_w", "gbs_r"} THEN p_fills \cup {level} ELSE p_fills

feederLocals == <<f_target, f_video_time>>
cbLocals == <<cb_bytes, cb_time>>
pLocals == <<p_position, p_w, p_ret>>
flags == <<seek_requested, seek_target, current_video_time,
           audio_thread_running, audio_should_stop>>
\* the flags of the feeder loop and the seek request
flags_but_time == <<seek_requested, seek_target, audio_thread_running,
                    audio_should_stop>>
clockVars == <<clock_pts, clock_base, now>>
seekHist == <<sync_calls, reloc_target>>
audioVars == <<buffer_mutex, audio_frame_cache, audio_cache_index, flags,
               clockVars, f_pc, feederLocals, cb_pc, cbLocals, p_pc, pLocals,
               fill_level, p_fills, seekHist>>

VARIABLES
    \* ---- SyncManager ----
    enabled,            \* bool enabled
    m_pc,               \* position of the thread calling initialize()/shutdown()
    \* ---- UDPSyncServer ----
    running,            \* std::atomic<bool> running
    socket_fd,          \* int socket_fd, -1 when closed
    message_callback,   \* whether message_callback is set
    connected_clients,  \* std::vector<std::unique_ptr<ConnectedClient>>
    s_pc,               \* position of server_thread (server_loop)
    s_dgram,            \* datagram of the running iteration of server_loop
    h_pc,               \* position of heartbeat_thread (heartbeat_loop)
    steady_now,         \* std::chrono::steady_clock
    \* ---- history of the network path ----
    callback_log        \* callbacks of SyncManager invoked so far

serverVars == <<running, socket_fd, message_callback, connected_clients,
                s_pc, s_dgram, h_pc>>
netVars == <<enabled, m_pc, serverVars, steady_now, callback_log>>

VARIABLES
    \* ---- a SyncMessage in a buffer (ChecksumSpec) ----
    w_bytes,            \* the sizeof(SyncMessage) bytes of the message
    w_changed,          \* whether a byte before the checksum has been changed
    w_result            \* what validate_checksum() returned, "none" before

wireVars == <<w_bytes, w_changed, w_result>>

VARIABLES
    \* ---- UDPSyncSender ----
    heartbeat_running,  \* std::atomic<bool> heartbeat_running
    sender_fd,          \* int socket_fd of the sender, -1 when closed
    hb_pc,              \* position of the sender's heartbeat_thread
    hb_i,               \* int i of the sleep loop in heartbeat_loop(), -1
                        \* before the first pass
    hb_sent             \* <<what sendto() returned>> to the heartbeat
                        \* just broadcast, <<>> otherwise

senderVars == <<heartbeat_running, sender_fd, hb_pc, hb_i, hb_sent>>

VARIABLES
    \* ---- the last outbound send operation called (SendSpec) ----
    snd_call,           \* the operation, enable_broadcast and the target
                        \* addresses it ran with
    snd_sent,           \* what each sendto() it performed returned, in order
    snd_ret             \* <<the value it returned>>, <<>> before any call

sendVars == <<snd_call, snd_sent, snd_ret>>

VARIABLES
    \* ---- the callbacks of SyncManager (DispatchSpec) ----
    on_callbacks,       \* the callbacks among on_sync_cue, on_seek_cue,
                        \* on_pause_cue, on_resume_cue, on_client_connected
                        \* that are set
    d_last              \* the last message handed to handle_sync_message(),
                        \* its sender_ip, the callbacks set then and the
                        \* calls it made

dispatchVars == <<on_callbacks, d_last>>

VARIABLES
    \* ---- VideoManager and the seeks of VideoPlayer (SeekSpec) ----
    current_frame,      \* std::atomic<int> current_frame
    video_clock,        \* std::atomic<double> video_clock
    last_percentage,    \* argument of the last seek_to_percentage(), -1
                        \* before any
    once,               \* what the seek before had left, kept when the
                        \* same seek is applied again
    cache_loaded,       \* std::atomic<bool> cache_loaded
    video_cache,        \* video_cache: the pts of each cached frame
    video_op            \* the last call made on the VideoManager

videoVars == <<current_frame, video_clock, last_percentage, once,
               cache_loaded, video_cache, video_op>>

VARIABLES
    \* ---- AudioClock, statement by statement (ClockSpec) ----
    clock_mutex,        \* std::mutex clock_mutex: its holder, or "free"
    set_pc,             \* per caller of set(): "idle", "store", "anchor"
    set_timestamp,      \* per caller of set(): the argument timestamp
    get_pc,             \* get(): "idle", "base", "pts", "done"
    get_now,            \* get(): the local now
    get_base,           \* get(): the base_time it has read
    get_pts,            \* get(): the pts it has loaded
    get_result,         \* get(): the value returned
    stored,             \* the (timestamp, anchor) pairs that the
                        \* constructor and the calls of set() have stored
    last_set,           \* the (timestamp, wall-clock time) of the call of
                        \* set() that returned last, <<0, 0>> before any
    get_after           \* get(): last_set as it stood when get() was
                        \* called with no call of set() under way, else <<>>

accessVars == <<clock_mutex, set_pc, set_timestamp, get_pc, get_now,
                get_base, get_pts, get_result, stored, last_set, get_after>>
\* the record of the calls of set() that get() is compared with
clockHist == <<last_set, get_after>>
VARIABLES
    \* ---- NetworkConfigParser and the configuration of SyncManager ----
    manager,            \* SyncManager: its port and my_client_name
    network_config,     \* SyncManager::network_config
    config_parser,      \* the config of SyncManager::config_parser, <<>>
                        \* while the pointer is null
    config_op           \* the last configuration call, its file and its
                        \* result

configVars == <<manager, network_config, config_parser, config_op>>

VARIABLES
    \* ---- VideoPlayer keys and the audio output device ----
    is_paused,          \* VideoPlayer::is_paused
    audio_muted,        \* AudioManager::audio_muted
    device_paused,      \* pause state of the SDL audio device
    keys                \* the keys handled so far, oldest first

keyVars == <<is_paused, audio_muted, device_paused, keys>>

VARIABLES
    \* ---- the mutexes of AudioManager that guard no variable above ----
    audio_frame_mutex,  \* holder of AudioManager::audio_frame_mutex
    audio_sync_mutex    \* holder of AudioManager::audio_sync_mutex

lockVars == <<audio_frame_mutex, audio_sync_mutex>>

VARIABLES
    \* ---- history of the heartbeats of a peer (EvictSpec) ----
    hb_lost             \* heartbeats the peer has sent since the last one
                        \* that server_loop() handled

peerVars == <<hb_lost>>
\* the parts that neither the audio nor the video actions touch
otherAux == <<wireVars, senderVars, sendVars, dispatchVars, accessVars,
              configVars, keyVars, lockVars, peerVars>>
auxVars == <<wireVars, senderVars, sendVars, dispatchVars, videoVars,
             accessVars, configVars, keyVars, lockVars, peerVars>>
\* everything but the variables of one part
notWire == <<ringVars, ringHist, audioVars, netVars, senderVars, sendVars,
             dispatchVars,
    videoVars, accessVars, configVars, keyVars, lockVars, peerVars>>
notSender == <<ringVars, ringHist, audioVars, netVars, wireVars, sendVars,
               dispatchVars,
    videoVars, accessVars, configVars, keyVars, lockVars, peerVars>>
notSend == <<ringVars, ringHist, audioVars, netVars, wireVars, senderVars,
             dispatchVars,
    videoVars, accessVars, configVars, keyVars, lockVars, peerVars>>
notDispatch == <<ringVars, ringHist, audioVars, netVars, wireVars, senderVars,
                 sendVars,
    videoVars, accessVars, configVars, keyVars, lockVars, peerVars>>
vars == <<ringVars, ringHist, audioVars, netVars, auxVars>>

\* ---- feeder thread ----
\* audio_thread_func: the loop test and the test of seek_requested
audio_thread_func ==
    /\ f_pc = "loop"
    /\ f_pc' = IF ~(audio_thread_running /\ ~audio_should_stop) THEN "exited"
               ELSE IF seek_requested THEN "seek_load"
               ELSE "fill_begin"
    /\ UNCHANGED <<ringVars, ringHist, buffer_mutex, audio_frame_cache, netVars, auxVars,
                   audio_cache_index, flags, clockVars, feederLocals, cb_pc,
                   cbLocals, p_pc, pLocals, fill_level, p_fills, seekHist>>

\* handle_audio_seek: double target = seek_target.load()
handle_audio_seek_load ==
    /\ f_pc = "seek_load"
    /\ f_target' = seek_target
    /\ f_pc' = "seek_clear"
    /\ UNCHANGED <<ringVars, ringHist, buffer_mutex, audio_frame_cache, netVars, auxVars,
                   audio_cache_index, flags, clockVars, f_video_time, cb_pc,
                   cbLocals, p_pc, pLocals, fill_level, p_fills, seekHist>>

\* handle_audio_seek: clear() takes buffer_mutex and stores write_pos
handle_audio_seek_clear ==
    /\ f_pc = "seek_clear"
    /\ buffer_mutex = "free"
    /\ buffer_mutex' = "feeder"
    /\ write_pos' = 0
    /\ fill_level' = 0
    /\ NoteFill(0)
    /\ f_pc' = "seek_index"
    /\ UNCHANGED <<capacity, buffer, read_pos, ringHist, audio_frame_cache,
                   netVars, auxVars,
                   audio_cache_index, flags, clockVars, feederLocals, cb_pc,
                   cbLocals, p_pc, pLocals, seekHist>>

handle_audio_seek_index_mut ==
    /\ f_pc = "seek_index"
    /\ read_pos' = read_pos
    /\ buffer_mutex' = "free"
    /\ audio_cache_index' = seek_index(audio_frame_cache, f_target)
    /\ reloc_target' = f_target
    /\ f_target' = 0
    /\ f_pc' = "seek_done"
    /\ UNCHANGED <<capacity, buffer, write_pos, ringHist, audio_frame_cache,
                   netVars, auxVars,
                   flags, clockVars, f_video_time, cb_pc, cbLocals, p_pc,
                   pLocals, fill_level, p_fills, sync_calls>>

\* handle_audio_seek: clear() stores read_pos and releases buffer_mutex, then
\* the search loop sets audio_cache_index
handle_audio_seek_index ==
    /\ f_pc = "seek_index"
    /\ read_pos' = 0
    /\ buffer_mutex' = "free"
    /\ audio_cache_index' = seek_index(audio_frame_cache, f_target)
    /\ reloc_target' = f_target
    /\ f_target' = 0
    /\ f_pc' = "seek_done"
    /\ UNCHANGED <<capacity, buffer, write_pos, ringHist, audio_frame_cache,
                   netVars, auxVars,
                   flags, clockVars, f_video_time, cb_pc, cbLocals, p_pc,
                   pLocals, fill_level, p_fills, sync_calls>>

\* audio_thread_func: seek_requested.store(false) after handle_audio_seek
audio_thread_seek_done ==
    /\ f_pc = "seek_done"
    /\ seek_requested' = FALSE
    /\ f_pc' = "fill_begin"
    /\ UNCHANGED <<ringVars, ringHist, buffer_mutex, audio_frame_cache, netVars, auxVars,
                   audio_cache_index, seek_target, current_video_time,
                   audio_thread_running, audio_should_stop, clockVars,
                   feederLocals, cb_pc, cbLocals, p_pc, pLocals, fill_level,
                   p_fills, seekHist>>

\* fill_audio_buffer: double video_time = current_video_time.load()
fill_audio_buffer_begin ==
    /\ f_pc = "fill_begin"
    /\ f_video_time' = current_video_time
    /\ f_pc' = "fill_check"
    /\ UNCHANGED <<ringVars, ringHist, buffer_mutex, audio_frame_cache, netVars, auxVars,
                   audio_cache_index, flags, clockVars, f_target, cb_pc,
                   cbLocals, p_pc, pLocals, fill_level, p_fills, seekHist>>

\* fill_audio_buffer: return when available_read() > MIN_BUFFER_SIZE
fill_audio_buffer_check ==
    /\ f_pc = "fill_check"
    /\ f_pc' = IF available_read(write_pos, read_pos) > MIN_BUFFER_SIZE
               THEN "loop" ELSE "fill_loop"
    /\ f_video_time' = IF f_pc' = "loop" THEN 0 ELSE f_video_time
    /\ UNCHANGED <<ringVars, ringHist, buffer_mutex, audio_frame_cache, netVars, auxVars,
                   audio_cache_index, flags, clockVars, f_target, cb_pc,
                   cbLocals, p_pc, pLocals, fill_level, p_fills, seekHist>>

\* a loop without the threshold test
fill_audio_buffer_loop_mut ==
    /\ f_pc = "fill_loop"
    /\ f_pc' = IF /\ audio_cache_index < Len(audio_frame_cache)
                  /\ available_write(write_pos, read_pos) > FILL_ROOM
               THEN "fill_write"
               ELSE "loop"
    /\ f_video_time' = IF f_pc' = "loop" THEN 0 ELSE f_video_time
    /\ UNCHANGED <<ringVars, ringHist, buffer_mutex, audio_frame_cache, netVars, auxVars,
                   audio_cache_index, flags, clockVars, f_target, cb_pc,
                   cbLocals, p_pc, pLocals, fill_level, p_fills, seekHist>>

\* fill_audio_buffer: the while condition and the threshold test
fill_audio_buffer_loop ==
    /\ f_pc = "fill_loop"
    /\ f_pc' = IF /\ audio_cache_index < Len(audio_frame_cache)
                  /\ available_write(write_pos, read_pos) > FILL_ROOM
               THEN IF audio_frame_cache[audio_cache_index + 1].pts
                         > f_video_time + AUDIO_SYNC_THRESHOLD
                    THEN "loop" ELSE "fill_write"
               ELSE "loop"
    /\ f_video_time' = IF f_pc' = "loop" THEN 0 ELSE f_video_time
    /\ UNCHANGED <<ringVars, ringHist, buffer_mutex, audio_frame_cache, netVars, auxVars,
                   audio_cache_index, flags, clockVars, f_target, cb_pc,
                   cbLocals, p_pc, pLocals, fill_level, p_fills, seekHist>>

\* a copy that leaves audio_cache_index where it is
fill_audio_buffer_write_mut ==
    /\ f_pc = "fill_write"
    /\ buffer_mutex = "free"
    /\ LET data == chunk_data(audio_cache_index)
           written == write_count(data)
       IN  /\ write(data)
           /\ fill_level' = fill_level + written
           /\ NoteFill(fill_level + written)
           /\ audio_cache_index' = audio_cache_index
           /\ f_pc' = IF written > 0 THEN "fill_loop" ELSE "loop"
           /\ f_video_time' = IF written > 0 THEN f_video_time ELSE 0
    /\ UNCHANGED <<ringHist, buffer_mutex, audio_frame_cache, netVars, auxVars, flags,
                   clockVars,
                   f_target, cb_pc, cbLocals, p_pc, pLocals, seekHist>>

\* fill_audio_buffer: write the chunk, advance the index when bytes went in
fill_audio_buffer_write ==
    /\ f_pc = "fill_write"
    /\ buffer_mutex = "free"
    /\ LET data == chunk_data(audio_cache_index)
           written == write_count(data)
       IN  /\ write(data)
           /\ fill_level' = fill_level + written
           /\ NoteFill(fill_level + written)
           /\ audio_cache_index' = IF written > 0 THEN audio_cache_index + 1
                                   ELSE audio_cache_index
           /\ f_pc' = IF written > 0 THEN "fill_loop" ELSE "loop"
           /\ f_video_time' = IF written > 0 THEN f_video_time ELSE 0
    /\ UNCHANGED <<ringHist, buffer_mutex, audio_frame_cache, netVars, auxVars, flags,
                   clockVars,
                   f_target, cb_pc, cbLocals, p_pc, pLocals, seekHist>>

\* ---- audio device thread ----
\* audio_callback_wrapper: read(stream, len)
audio_callback_read ==
    /\ cb_pc = "idle"
    /\ buffer_mutex = "free"
    /\ LET bytes_read == read_count(CALLBACK_LEN)
           got == read_copy(buffer, read_pos, bytes_read)
       IN  /\ read(CALLBACK_LEN)
           /\ fill_level' = fill_level - bytes_read
           /\ NoteFill(fill_level - bytes_read)
           /\ cb_bytes' = bytes_read
           /\ cb_pc' = IF bytes_read > 0 THEN "clock_get" ELSE "idle"
    /\ UNCHANGED <<ringHist, buffer_mutex, audio_frame_cache, netVars, auxVars,
                   audio_cache_index,
                   flags, clockVars, f_pc, feederLocals, cb_time, p_pc, pLocals,
                   seekHist>>

\* audio_callback_wrapper: current_audio_time = get_clock()->get()
audio_callback_clock_get ==
    /\ cb_pc = "clock_get"
    /\ cb_time' = clock_get
    /\ cb_pc' = "clock_set"
    /\ UNCHANGED <<ringVars, ringHist, buffer_mutex, audio_frame_cache, netVars, auxVars,
                   audio_cache_index, flags, clockVars, f_pc, feederLocals,
                   cb_bytes, p_pc, pLocals, fill_level, p_fills, seekHist>>

\* audio_callback_wrapper: get_clock()->set(current_audio_time + time_played)
audio_callback_clock_set ==
    /\ cb_pc = "clock_set"
    /\ clock_set(cb_time + time_played(cb_bytes))
    /\ cb_bytes' = 0
    /\ cb_time' = 0
    /\ cb_pc' = "idle"
    /\ UNCHANGED <<ringVars, ringHist, buffer_mutex, audio_frame_cache, netVars, auxVars,
                   audio_cache_index, flags, now, f_pc, feederLocals,
                   p_pc, pLocals, fill_level, p_fills, seekHist>>

\* ---- the wall clock ----
\* wall-clock time units that pass at most
MaxWall == 2

\* std::chrono::high_resolution_clock::now() moves on by one time unit
wall_clock_tick ==
    /\ now < MaxWall
    /\ now' = now + 1
    /\ UNCHANGED <<ringVars, ringHist, buffer_mutex, audio_frame_cache,
                   netVars, auxVars, audio_cache_index, flags, clock_pts,
                   clock_base, f_pc, feederLocals, cb_pc, cbLocals, p_pc,
                   pLocals, fill_level, p_fills, seekHist>>

\* ---- AudioClock::set() and AudioClock::get(), statement by statement ----
\* the threads that call set(): the presentation thread through
\* sync_to_position(), the audio device thread through the callback
Setters == {"main", "callback"}
\* the timestamps passed to set()
SetTimestamps == {5, 9}

\* the clock as its constructor leaves it, nobody inside set() or get()
AccessAtRest ==
    /\ clock_mutex = "free"
    /\ set_pc = [t \in Setters |-> "idle"]
    /\ set_timestamp = [t \in Setters |-> 0]
    /\ get_pc = "idle"
    /\ get_now = 0
    /\ get_base = 0
    /\ get_pts = 0
    /\ get_result = 0
    /\ stored = {<<0, 0>>}
    /\ last_set = <<0, 0>>
    /\ get_after = <<>>

\* all variables but those of the clock and its callers
notClock == <<ringVars, ringHist, netVars, wireVars, senderVars, sendVars,
              dispatchVars, videoVars, configVars, keyVars, lockVars, peerVars, buffer_mutex, audio_frame_cache,
              audio_cache_index, flags, f_pc, feederLocals, cb_pc,
              cbLocals, p_pc, pLocals, fill_level, p_fills, seekHist>>

\* set(): std::lock_guard<std::mutex> lock(clock_mutex)
AudioClock_set_lock(t, timestamp) ==
    /\ set_pc[t] = "idle"
    /\ clock_mutex = "free"
    /\ clock_mutex' = t
    /\ set_timestamp' = [set_timestamp EXCEPT ![t] = timestamp]
    /\ set_pc' = [set_pc EXCEPT ![t] = "store"]
    /\ UNCHANGED <<notClock, clockVars, get_pc, get_now, get_base, get_pts,
                   get_result, stored, clockHist>>

\* set(): pts.store(timestamp)
AudioClock_set_store(t) ==
    /\ set_pc[t] = "store"
    /\ clock_pts' = set_timestamp[t]
    /\ set_pc' = [set_pc EXCEPT ![t] = "anchor"]
    /\ UNCHANGED <<notClock, clock_base, now, clock_mutex, set_timestamp,
                   get_pc, get_now, get_base, get_pts, get_result, stored,
                   clockHist>>

\* set(): base_time = now(), then the lock_guard releases the mutex
AudioClock_set_anchor(t) ==
    /\ set_pc[t] = "anchor"
    /\ clock_base' = now
    /\ stored' = stored \cup {<<set_timestamp[t], now>>}
    /\ last_set' = <<set_timestamp[t], now>>
    /\ clock_mutex' = "free"
    /\ set_pc' = [set_pc EXCEPT ![t] = "idle"]
    /\ UNCHANGED <<notClock, clock_pts, now, set_timestamp, get_pc, get_now,
                   get_base, get_pts, get_result, get_after>>

\* get(): auto now = high_resolution_clock::now(); no lock is taken
AudioClock_get_now ==
    /\ get_pc = "idle"
    /\ get_now' = now
    /\ get_pc' = "base"
    /\ get_after' = IF \A t \in Setters : set_pc[t] = "idle"
                    THEN last_set ELSE <<>>
    /\ UNCHANGED <<notClock, clockVars, clock_mutex, set_pc, set_timestamp,
                   get_base, get_pts, get_result, stored, last_set>>

\* get(): the read of base_time in now - base_time.  base_time is a plain
\* time_point: a read that overlaps a call of set() sees the anchor of
\* before or the anchor of after it, as the interleaving has it
AudioClock_get_base ==
    /\ get_pc = "base"
    /\ get_base' = clock_base
    /\ get_pc' = "pts"
    /\ UNCHANGED <<notClock, clockVars, clock_mutex, set_pc, set_timestamp,
                   get_now, get_pts, get_result, stored, clockHist>>

\* get() without the anchor: pts.load() + now
AudioClock_get_pts_mut ==
    /\ get_pc = "pts"
    /\ get_pts' = clock_pts
    /\ get_result' = clock_pts + get_now
    /\ get_pc' = "done"
    /\ UNCHANGED <<notClock, clockVars, clock_mutex, set_pc, set_timestamp,
                   get_now, get_base, stored, clockHist>>

\* get(): return pts.load() + elapsed
AudioClock_get_pts ==
    /\ get_pc = "pts"
    /\ get_pts' = clock_pts
    /\ get_result' = clock_pts + (get_now - get_base)
    /\ get_pc' = "done"
    /\ UNCHANGED <<notClock, clockVars, clock_mutex, set_pc, set_timestamp,
                   get_now, get_base, stored, clockHist>>

\* the caller of get() has its value; the locals of get() are gone
AudioClock_get_return ==
    /\ get_pc = "done"
    /\ get_pc' = "idle"
    /\ get_now' = 0
    /\ get_base' = 0
    /\ get_pts' = 0
    /\ get_result' = 0
    /\ get_after' = <<>>
    /\ UNCHANGED <<notClock, clockVars, clock_mutex, set_pc, set_timestamp,
                   stored, last_set>>

\* ---- NetworkConfigParser ----
\* uint16_t
UINT16_MOD == 65536
\* static_cast<uint16_t>(std::stoi(value))
to_uint16(n) == n % UINT16_MOD

\* struct NetworkConfig with its default member values, the fields that
\* validation and the SyncManager read
DefaultConfig ==
    [listen_port |-> 9999, client_name |-> "", targets |-> <<>>,
     heartbeat_interval_seconds |-> 10, client_timeout_seconds |-> 30]

\* the IP addresses written in the files: one well formed, one that
\* matches the pattern with an octet above 255, one that is no address
WrittenIps == {"10.0.0.2", "10.0.0.256", "peer"}
\* std::regex_match(target.ip_address, ip_regex)
regex_match(ip) == ip \in {"10.0.0.2", "10.0.0.256"}
\* every octet within 0..255
octets_valid(ip) == ip = "10.0.0.2"

\* the port numbers written in the files: below the range, within it,
\* and above 65535 (66560 = 65536 + 1024)
WrittenPorts == {80, 5000, 66560}
\* the (heartbeat_interval, client_timeout) pairs written in the files
WrittenTimings == {<<10, 30>>, <<10, 15>>}
\* the target lists written in the files
WrittenTargets ==
    {<<>>} \cup {<<[ip |-> ip, port |-> port]>> :
                    ip \in WrittenIps, port \in WrittenPorts}

\* a configuration file: the values its lines give to listen_port,
\* client_name, heartbeat_interval, client_timeout and target
ConfigFiles ==
    [listen_port : WrittenPorts, client_name : {"stage"},
     timing : WrittenTimings, targets : WrittenTargets]

\* parse_target_line(): ip:port, the port converted to uint16_t
parse_target_line(t) ==
    [ip_address |-> t.ip, port |-> to_uint16(t.port)]

\* the loop of load_from_file(): parse_line() on every line of the file
parse_lines(config, file) ==
    [listen_port |-> to_uint16(file.listen_port),
     client_name |-> file.client_name,
     targets |-> config.targets \o
        [i \in 1..Len(file.targets) |-> parse_target_line(file.targets[i])],
     heartbeat_interval_seconds |-> file.timing[1],
     client_timeout_seconds |-> file.timing[2]]

\* get_validation_errors().empty()
validate_config(config) ==
    /\ ~(config.listen_port < 1024 \/ config.listen_port > 65535)
    /\ ~(config.heartbeat_interval_seconds < 1
          \/ config.heartbeat_interval_seconds > 300)
    /\ ~(config.client_timeout_seconds
            < config.heartbeat_interval_seconds * 2)
    /\ \A i \in 1..Len(config.targets) :
          LET target == config.targets[i]
          IN  /\ regex_match(target.ip_address)
              /\ octets_valid(target.ip_address)
              /\ ~(target.port < 1024 \/ target.port > 65535)

\* NetworkConfigParser::load_from_file(): the parser's config afterwards
\* and the value returned; the file can be opened
load_from_file(config, file) ==
    LET parsed == parse_lines(config, file)
    IN  [config |-> parsed, ret |-> validate_config(parsed)]

\* SyncManager(client_name, port): the constructor
SyncManager_new(client_name, port) ==
    [manager |-> [port |-> port,
                  name |-> IF client_name = "" THEN "host-1"
                           ELSE client_name],
     network_config |->
        [DefaultConfig EXCEPT !.listen_port = port,
                              !.client_name = IF client_name = ""
                                              THEN "host-1" ELSE client_name]]

\* no configuration call made yet
NoConfigOp == [op |-> "none", file |-> <<>>, ret |-> TRUE]

\* a SyncManager from create_default("booth", 9999), no parser yet
\* the player and the audio device as play() leaves them when playback
\* begins: not paused, not muted, the device started by start_playback()
KeysAtRest ==
    /\ is_paused = FALSE
    /\ audio_muted = FALSE
    /\ device_paused = FALSE
    /\ keys = <<>>

\* no thread holds audio_frame_mutex or audio_sync_mutex
LocksAtRest ==
    /\ audio_frame_mutex = "free"
    /\ audio_sync_mutex = "free"

\* no heartbeat of the peer has been sent
PeerAtRest == hb_lost = 0

ConfigAtRest ==
    /\ manager = SyncManager_new("booth", 9999).manager
    /\ network_config = SyncManager_new("booth", 9999).network_config
    /\ config_parser = <<>>
    /\ config_op = NoConfigOp

\* all variables but those of the configuration
notConfig == <<ringVars, ringHist, audioVars, netVars, wireVars, senderVars,
               sendVars, dispatchVars, videoVars, accessVars, keyVars, lockVars, peerVars>>

\* SyncManager::load_config(config_file_path)
load_config(file) ==
    LET loaded == load_from_file(DefaultConfig, file)
    IN  /\ config_parser' = <<loaded.config>>
        /\ network_config' = IF loaded.ret THEN loaded.config
                             ELSE network_config
        /\ config_op' = [op |-> "load_config", file |-> file,
                         ret |-> loaded.ret]
        /\ UNCHANGED <<notConfig, manager>>

\* SyncManager::create_with_config(config_file_path): the constructor of
\* the parser loads the file and drops what load_from_file() returns
create_with_config(file) ==
    LET loaded == load_from_file(DefaultConfig, file)
        made == SyncManager_new(loaded.config.client_name,
                                loaded.config.listen_port)
    IN  /\ manager' = made.manager
        /\ config_parser' = <<loaded.config>>
        /\ network_config' = loaded.config
        /\ config_op' = [op |-> "create_with_config", file |-> file,
                         ret |-> loaded.ret]
        /\ UNCHANGED notConfig

\* SyncManager::create_default(client_name, port)
create_default ==
    /\ manager' = SyncManager_new("booth", 9999).manager
    /\ network_config' = SyncManager_new("booth", 9999).network_config
    /\ config_parser' = <<>>
    /\ config_op' = [op |-> "create_default", file |-> <<>>, ret |-> TRUE]
    /\ UNCHANGED notConfig

\* ---- presentation thread ----
\* sync_to_position: the guard, then seek_target.store(position)
sync_to_position_target ==
    \E position \in Positions :
        /\ p_pc = "idle"
        /\ sync_calls < MaxSyncCalls
        /\ audio_thread_running
        /\ seek_target' = position
        /\ p_position' = position
        /\ sync_calls' = sync_calls + 1
        /\ p_pc' = "sync_flag"
        /\ UNCHANGED <<ringVars, ringHist, buffer_mutex, audio_frame_cache,
                       netVars, auxVars,
                       audio_cache_index, seek_requested, current_video_time,
                       audio_thread_running, audio_should_stop, clockVars, f_pc,
                       feederLocals, cb_pc, cbLocals, p_w, p_ret, fill_level,
                       p_fills, reloc_target>>

\* sync_to_position: seek_requested.store(true)
sync_to_position_flag ==
    /\ p_pc = "sync_flag"
    /\ seek_requested' = TRUE
    /\ p_pc' = "sync_clock"
    /\ UNCHANGED <<ringVars, ringHist, buffer_mutex, audio_frame_cache, netVars, auxVars,
                   audio_cache_index, seek_target, current_video_time,
                   audio_thread_running, audio_should_stop, clockVars, f_pc,
                   feederLocals, cb_pc, cbLocals, pLocals, fill_level, p_fills,
                   seekHist>>

\* sync_to_position: audio_clock->set(position)
sync_to_position_clock ==
    /\ p_pc = "sync_clock"
    /\ clock_set(p_position)
    /\ p_pc' = "sync_ret"
    /\ UNCHANGED <<ringVars, ringHist, buffer_mutex, audio_frame_cache, netVars, auxVars,
                   audio_cache_index, flags, now, f_pc, feederLocals, cb_pc,
                   cbLocals, pLocals, fill_level, p_fills, seekHist>>

\* sync_to_position returns to its caller
sync_to_position_return ==
    /\ p_pc = "sync_ret"
    /\ p_position' = 0
    /\ p_pc' = "idle"
    /\ UNCHANGED <<ringVars, ringHist, buffer_mutex, audio_frame_cache, netVars, auxVars,
                   audio_cache_index, flags, clockVars, f_pc, feederLocals,
                   cb_pc, cbLocals, p_w, p_ret, fill_level, p_fills, seekHist>>

\* set_video_time(time): current_video_time.store(time)
set_video_time ==
    \E time \in VideoTimes :
        /\ p_pc = "idle"
        /\ current_video_time' = time
        /\ UNCHANGED <<ringVars, ringHist, buffer_mutex, audio_frame_cache,
                       netVars, auxVars,
                       audio_cache_index, seek_requested, seek_target,
                       audio_thread_running, audio_should_stop, clockVars, f_pc,
                       feederLocals, cb_pc, cbLocals, p_pc, pLocals, fill_level,
                       p_fills, seekHist>>

\* get_buffer_size() is entered
get_buffer_size_call ==
    /\ p_pc = "idle"
    /\ p_fills' = {fill_level}
    /\ p_pc' = "gbs_w"
    /\ UNCHANGED <<ringVars, ringHist, buffer_mutex, audio_frame_cache, netVars, auxVars,
                   audio_cache_index, flags, clockVars, f_pc, feederLocals,
                   cb_pc, cbLocals, pLocals, fill_level, seekHist>>

\* available_read(): size_t w = write_pos.load()
get_buffer_size_load_w ==
    /\ p_pc = "gbs_w"
    /\ p_w' = write_pos
    /\ p_pc' = "gbs_r"
    /\ UNCHANGED <<ringVars, ringHist, buffer_mutex, audio_frame_cache, netVars, auxVars,
                   audio_cache_index, flags, clockVars, f_pc, feederLocals,
                   cb_pc, cbLocals, p_position, p_ret, fill_level, p_fills,
                   seekHist>>

\* available_read(): size_t r = read_pos.load(), and the value returned
get_buffer_size_load_r ==
    /\ p_pc = "gbs_r"
    /\ p_ret' = available_read(p_w, read_pos)
    /\ p_pc' = "gbs_ret"
    /\ UNCHANGED <<ringVars, ringHist, buffer_mutex, audio_frame_cache, netVars, auxVars,
                   audio_cache_index, flags, clockVars, f_pc, feederLocals,
                   cb_pc, cbLocals, p_position, p_w, fill_level, p_fills,
                   seekHist>>

\* get_buffer_size() has returned p_ret
get_buffer_size_return ==
    /\ p_pc = "gbs_ret"
    /\ p_pc' = "idle"
    /\ p_fills' = {}
    /\ p_w' = 0
    /\ p_ret' = 0
    /\ UNCHANGED <<ringVars, ringHist, buffer_mutex, audio_frame_cache, netVars, auxVars,
                   audio_cache_index, flags, clockVars, f_pc, feederLocals,
                   cb_pc, cbLocals, p_position, fill_level, seekHist>>

\* ---- VideoPlayer::seek_to_percentage() on the presentation thread ----
\* timestamps of the cached video frames, in units of 10 ms
VideoPts == <<0, 4, 14>>

\* percentages the seeks are called with
Percentages == {50, 100, 150}

\* VideoManager::seek_to_percentage(): the clamp, then
\* (int)(percentage / 100.0 * max_frame)
clamp(percentage) ==
    IF percentage < 0 THEN 0
    ELSE IF percentage > 100 THEN 100 ELSE percentage

\* the conversion (int)x of x = n / 100: towards zero
to_int(n) == IF n < 0 THEN -((-n) \div 100) ELSE n \div 100

\* a target frame computed from the percentage as passed, not clamped
target_frame_mut(percentage, max_frame) == to_int(percentage * max_frame)

target_frame(percentage, max_frame) == to_int(clamp(percentage) * max_frame)

\* the feeder would copy nothing more: fill_audio_buffer() returns at its
\* first test, or its loop stops at once
FillDone ==
    \/ available_read(write_pos, read_pos) > MIN_BUFFER_SIZE
    \/ audio_cache_index >= Len(audio_frame_cache)
    \/ available_write(write_pos, read_pos) <= FILL_ROOM
    \/ audio_frame_cache[audio_cache_index + 1].pts
          > current_video_time + AUDIO_SYNC_THRESHOLD

\* no seek is in progress or pending and the feeder has topped up
Quiescent ==
    /\ p_pc = "idle"
    /\ f_pc = "loop"
    /\ ~seek_requested
    /\ FillDone

\* what a seek leaves: frame index, video clock, seek target, cache index
\* and the reading of the audio clock
Snapshot ==
    [frame |-> current_frame, video_clock |-> video_clock,
     seek_target |-> seek_target, cache_index |-> audio_cache_index,
     audio_clock |-> clock_get]

NoSnapshot ==
    [frame |-> -1, video_clock |-> -1, seek_target |-> -1, cache_index |-> -1,
     audio_clock |-> -1]

\* a seek that steps one frame forward from the current frame
seek_to_percentage_mut ==
    \E percentage \in Percentages :
        LET max_frame == Len(VideoPts) - 1
            frame == Min(current_frame + 1, max_frame)
        IN  /\ p_pc = "idle"
            /\ sync_calls < MaxSyncCalls
            /\ current_frame' = frame
            /\ video_clock' = VideoPts[frame + 1]
            /\ last_percentage' = percentage
            /\ once' = IF Quiescent /\ last_percentage = percentage
                       THEN Snapshot ELSE NoSnapshot
            /\ sync_calls' = sync_calls + 1
            /\ p_pc' = "video_seeked"
            /\ UNCHANGED <<ringVars, ringHist, buffer_mutex, audio_frame_cache,
                           netVars, otherAux, audio_cache_index, flags,
                           clockVars, f_pc, feederLocals, cb_pc, cbLocals,
                           pLocals, fill_level, p_fills, reloc_target,
                           cache_loaded, video_cache, video_op>>

\* VideoPlayer::seek_to_percentage() up to the return of
\* video_manager->seek_to_percentage(): the cache is loaded, so the frame
\* index and the video clock are stored
seek_to_percentage ==
    \E percentage \in Percentages :
        LET max_frame == Len(VideoPts) - 1
            frame == target_frame(percentage, max_frame)
        IN  /\ p_pc = "idle"
            /\ sync_calls < MaxSyncCalls
            /\ current_frame' = frame
            /\ video_clock' = VideoPts[frame + 1]
            /\ last_percentage' = percentage
            /\ once' = IF Quiescent /\ last_percentage = percentage
                       THEN Snapshot ELSE NoSnapshot
            /\ sync_calls' = sync_calls + 1
            /\ p_pc' = "video_seeked"
            /\ UNCHANGED <<ringVars, ringHist, buffer_mutex, audio_frame_cache,
                           netVars, otherAux, audio_cache_index, flags,
                           clockVars, f_pc, feederLocals, cb_pc, cbLocals,
                           pLocals, fill_level, p_fills, reloc_target,
                           cache_loaded, video_cache, video_op>>

\* an orchestrator that passes the audio reference time, not the video clock
sync_audio_to_video_position_mut ==
    /\ p_pc = "video_seeked"
    /\ IF audio_thread_running
       THEN /\ seek_target' = current_video_time
            /\ p_position' = current_video_time
            /\ p_pc' = "sync_flag"
       ELSE UNCHANGED <<seek_target, p_position>> /\ p_pc' = "idle"
    /\ UNCHANGED <<ringVars, ringHist, buffer_mutex, audio_frame_cache,
                   netVars, auxVars,
                   audio_cache_index, seek_requested, current_video_time,
                   audio_thread_running, audio_should_stop, clockVars, f_pc,
                   feederLocals, cb_pc, cbLocals, p_w, p_ret, fill_level,
                   p_fills, seekHist>>

\* sync_audio_to_video_position(get_video_clock()): sync_to_position()
\* from its guard to seek_target.store(position)
sync_audio_to_video_position ==
    /\ p_pc = "video_seeked"
    /\ IF audio_thread_running
       THEN /\ seek_target' = video_clock
            /\ p_position' = video_clock
            /\ p_pc' = "sync_flag"
       ELSE UNCHANGED <<seek_target, p_position>> /\ p_pc' = "idle"
    /\ UNCHANGED <<ringVars, ringHist, buffer_mutex, audio_frame_cache,
                   netVars, auxVars,
                   audio_cache_index, seek_requested, current_video_time,
                   audio_thread_running, audio_should_stop, clockVars, f_pc,
                   feederLocals, cb_pc, cbLocals, p_w, p_ret, fill_level,
                   p_fills, seekHist>>

\* stop_audio_thread(), also run by ~AudioManager(): nothing when the
\* thread is not running; otherwise both flags are stored, then join()
stop_audio_thread ==
    /\ p_pc = "idle"
    /\ IF ~audio_thread_running
       THEN UNCHANGED <<audio_thread_running, audio_should_stop, p_pc>>
       ELSE /\ audio_should_stop' = TRUE
            /\ audio_thread_running' = FALSE
            /\ p_pc' = "join"
    /\ UNCHANGED <<ringVars, ringHist, buffer_mutex, audio_frame_cache,
                   netVars, auxVars,
                   audio_cache_index, seek_requested, seek_target,
                   current_video_time, clockVars, f_pc, feederLocals, cb_pc,
                   cbLocals, pLocals, fill_level, p_fills, seekHist>>

\* stop_audio_thread() that does not wait for the thread
stop_audio_thread_join_mut ==
    /\ p_pc = "join"
    /\ p_pc' = "idle"
    /\ UNCHANGED <<ringVars, ringHist, buffer_mutex, audio_frame_cache,
                   netVars, auxVars,
                   audio_cache_index, flags, clockVars, f_pc, feederLocals,
                   cb_pc, cbLocals, pLocals, fill_level, p_fills, seekHist>>

\* audio_thread.join() returns once audio_thread_func() has returned
stop_audio_thread_join ==
    /\ p_pc = "join"
    /\ f_pc = "exited"
    /\ p_pc' = "idle"
    /\ UNCHANGED <<ringVars, ringHist, buffer_mutex, audio_frame_cache,
                   netVars, auxVars,
                   audio_cache_index, flags, clockVars, f_pc, feederLocals,
                   cb_pc, cbLocals, pLocals, fill_level, p_fills, seekHist>>

\* AudioManager as constructed and started, nothing requested yet
AudioManagerInit ==
    /\ buffer_mutex = "free"
    /\ audio_cache_index = 0
    /\ seek_requested = FALSE
    /\ seek_target = 0
    /\ current_video_time = 0
    /\ audio_thread_running = TRUE
    /\ audio_should_stop = FALSE
    /\ clock_pts = 0
    /\ clock_base = 0
    /\ now = 0
    /\ f_pc = "loop"
    /\ f_target = 0
    /\ f_video_time = 0
    /\ cb_pc = "idle"
    /\ cb_bytes = 0
    /\ cb_time = 0
    /\ p_pc = "idle"
    /\ p_position = 0
    /\ p_w = 0
    /\ p_ret = 0
    /\ fill_level = 0
    /\ p_fills = {}
    /\ sync_calls = 0
    /\ reloc_target = -1

\* the ring buffer as constructed, its history empty
RingEmpty ==
    /\ buffer = [i \in 0..(capacity - 1) |-> 0]
    /\ write_pos = 0
    /\ read_pos = 0
    /\ accepted = <<>>
    /\ returned = <<>>
    /\ last_op = [op |-> "new", arg |-> 0, ret |-> 0, avail |-> 0,
                  cleared |-> 0]

(***************************************************************************)
(* SyncMessage and SyncProtocol                                            *)
(***************************************************************************)
\* enum class SyncMessageType
HEARTBEAT == 1
SYNC_CUE == 2
SEEK_CUE == 3
PAUSE_CUE == 4
RESUME_CUE == 5
CLIENT_DISCOVER == 6
CLIENT_ANNOUNCE == 7

\* the bytes of the magic number 0xDEADBEEF as they lie in the datagram
MAGIC == <<239, 190, 173, 222>>

\* sizeof(SyncMessage), packed: magic, type, sender_id, timestamp_us,
\* frame_number, seek_position, client_name[32], checksum
SIZEOF_SyncMessage == 4 + 1 + 4 + 8 + 4 + 8 + 32 + 4

MAX_MESSAGE_SIZE == SIZEOF_SyncMessage

RECURSIVE SumSeq(_)
SumSeq(s) == IF s = <<>> THEN 0 ELSE Head(s) + SumSeq(Tail(s))

\* sum of the bytes of an unsigned integer field
RECURSIVE ByteSum(_)
ByteSum(v) == IF v = 0 THEN 0 ELSE (v % 256) + ByteSum(v \div 256)

\* the summing loop of calculate_checksum() and validate_checksum(): every
\* byte before the checksum field; 61 bytes cannot overflow the uint32_t sum.
\* client_name holds the bytes before the zero padding, seek_position stands
\* for the bit pattern of the double.
checksum_sum(msg) ==
    SumSeq(msg.magic) + ByteSum(msg.type) + ByteSum(msg.sender_id)
      + ByteSum(msg.timestamp_us) + ByteSum(msg.frame_number)
      + ByteSum(msg.seek_position) + SumSeq(msg.client_name)

calculate_checksum(msg) == [msg EXCEPT !.checksum = checksum_sum(msg)]

validate_checksum(msg) == checksum_sum(msg) = msg.checksum

\* SyncMessage(): the default-constructed message
SyncMessage ==
    [magic |-> MAGIC, type |-> HEARTBEAT, sender_id |-> 0, timestamp_us |-> 0,
     frame_number |-> 0, seek_position |-> 0, client_name |-> <<>>,
     checksum |-> 0]

\* strncpy(msg.client_name, client_name.c_str(), sizeof(msg.client_name) - 1)
strncpy(client_name) == SubSeq(client_name, 1, Min(Len(client_name), 31))

\* std::string(msg.client_name): the bytes before the first zero
RECURSIVE std_string(_)
std_string(bytes) ==
    IF bytes = <<>> \/ Head(bytes) = 0 THEN <<>>
    ELSE <<Head(bytes)>> \o std_string(Tail(bytes))

\* get_current_timestamp_us() as read by the factories
Timestamps == {5}

create_message(type, sender_id, frame_number, position, client_name, ts) ==
    calculate_checksum([SyncMessage EXCEPT
        !.type = type, !.sender_id = sender_id, !.timestamp_us = ts,
        !.frame_number = frame_number, !.seek_position = position,
        !.client_name = strncpy(client_name)])

create_sync_cue(sender_id, frame_number, client_name, ts) ==
    create_message(SYNC_CUE, sender_id, frame_number, 0, client_name, ts)

create_seek_cue(sender_id, position, client_name, ts) ==
    create_message(SEEK_CUE, sender_id, 0, position, client_name, ts)

create_pause_cue(sender_id, client_name, ts) ==
    create_message(PAUSE_CUE, sender_id, 0, 0, client_name, ts)

create_resume_cue(sender_id, client_name, ts) ==
    create_message(RESUME_CUE, sender_id, 0, 0, client_name, ts)

create_heartbeat(sender_id, client_name, ts) ==
    create_message(HEARTBEAT, sender_id, 0, 0, client_name, ts)

create_client_announce(sender_id, client_name, ts) ==
    create_message(CLIENT_ANNOUNCE, sender_id, 0, 0, client_name, ts)

\* ---- datagrams the network can hand to the socket ----
\* frame number and seek position carried by the cues
CueFrames == {7}
CuePositions == {3}

\* what the factories of a node build
FactoryMessages ==
    UNION {
        {create_sync_cue(id, f, n, ts) : f \in CueFrames}
          \cup {create_seek_cue(id, pos, n, ts) : pos \in CuePositions}
          \cup {create_pause_cue(id, n, ts), create_resume_cue(id, n, ts),
                create_heartbeat(id, n, ts), create_client_announce(id, n, ts)}
        : <<id, n, ts>> \in ClientIds \X Names \X Timestamps}

\* a CLIENT_DISCOVER, which no factory builds, with a correct checksum
DiscoverMessages ==
    {create_message(CLIENT_DISCOVER, id, 0, 0, <<65>>, 5) : id \in PeerIds}

\* messages that malformed datagrams are made from
SampleMessages ==
    {create_client_announce(id, <<66>>, 5) : id \in PeerIds}
      \cup {create_seek_cue(id, 3, <<66>>, 5) : id \in PeerIds}

\* the address a node of a given name sends from
AddressOf(name) == IF name = <<65>> THEN "10.0.0.1" ELSE "10.0.0.2"

\* A datagram: len bytes on the wire from address from; msg gives the
\* fields its first sizeof(SyncMessage) bytes decode to.
Datagrams ==
    {[len |-> SIZEOF_SyncMessage, from |-> AddressOf(m.client_name), msg |-> m] :
        m \in FactoryMessages \cup DiscoverMessages}
      \cup {[len |-> l, from |-> "10.0.0.2", msg |-> m] :
              l \in {SIZEOF_SyncMessage - 1, SIZEOF_SyncMessage + 1},
              m \in SampleMessages}
      \cup {[len |-> SIZEOF_SyncMessage, from |-> "10.0.0.2",
             msg |-> calculate_checksum([m EXCEPT !.magic = <<0, 0, 0, 0>>])] :
              m \in SampleMessages}
      \cup {[len |-> SIZEOF_SyncMessage, from |-> "10.0.0.2",
             msg |-> [m EXCEPT !.checksum = m.checksum + 1]] :
              m \in SampleMessages}

NoDatagram == [len |-> 0, from |-> "", msg |-> SyncMessage]

\* recvfrom(socket_fd, buffer, size, ...) on a datagram socket: the bytes that
\* do not fit the buffer are discarded and the count copied is returned
recvfrom(dgram, size) == Min(dgram.len, size)

\* ---- a SyncMessage as the bytes of the packed struct ----
\* the n bytes of an unsigned value, least significant byte first
RECURSIVE LittleEndian(_, _)
LittleEndian(v, n) ==
    IF n = 0 THEN <<>> ELSE <<v % 256>> \o LittleEndian(v \div 256, n - 1)

\* char client_name[32]: the name, then the zeros of the memset
name_field(client_name) ==
    client_name \o [k \in 1..(32 - Len(client_name)) |-> 0]

\* reinterpret_cast<const uint8_t*>(this): the fields in declaration order
\* with no padding, the checksum in the last four bytes
to_bytes(msg) ==
    msg.magic \o <<msg.type>> \o LittleEndian(msg.sender_id, 4)
      \o LittleEndian(msg.timestamp_us, 8) \o LittleEndian(msg.frame_number, 4)
      \o LittleEndian(msg.seek_position, 8) \o name_field(msg.client_name)
      \o LittleEndian(msg.checksum, 4)

\* the loop of validate_checksum() with the last name byte left out
buffer_sum_mut(bytes) == SumSeq(SubSeq(bytes, 1, SIZEOF_SyncMessage - 5))

\* for (i = 0; i < sizeof(SyncMessage) - sizeof(checksum); ++i)
\*     sum += data[i];
buffer_sum(bytes) == SumSeq(SubSeq(bytes, 1, SIZEOF_SyncMessage - 4))

\* validate_checksum() on the bytes of a message: the sum of the bytes
\* before the checksum compared with the stored checksum
validate_checksum_bytes(bytes) ==
    LittleEndian(buffer_sum(bytes), 4)
        = SubSeq(bytes, SIZEOF_SyncMessage - 3, SIZEOF_SyncMessage)

\* values a byte of the buffer is overwritten with
ByteValues == {0, 1, 66, 255}

WireAtRest ==
    /\ w_bytes = to_bytes(SyncMessage)
    /\ w_changed = FALSE
    /\ w_result = "none"

\* one byte before the checksum field takes another value
change_byte ==
    /\ ~w_changed
    /\ w_result = "none"
    /\ \E i \in 1..(SIZEOF_SyncMessage - 4), v \in ByteValues :
          /\ v # w_bytes[i]
          /\ w_bytes' = [w_bytes EXCEPT ![i] = v]
    /\ w_changed' = TRUE
    /\ UNCHANGED <<notWire, w_result>>

\* msg.validate_checksum() on the message in the buffer
validate_buffer ==
    /\ w_result = "none"
    /\ w_result' = IF validate_checksum_bytes(w_bytes) THEN "true" ELSE "false"
    /\ UNCHANGED <<notWire, w_bytes, w_changed>>

(***************************************************************************)
(* UDPSyncServer                                                           *)
(***************************************************************************)
\* ConnectedClient(id, name, ip, port): last_heartbeat is the time of
\* construction; port is the server's own port in every entry
ConnectedClient(id, name, ip, t) ==
    [client_id |-> id, name |-> name, ip_address |-> ip, last_heartbeat |-> t]

update_client_list_mut(clients, msg, sender_ip, t) ==
    Append(clients,
           ConnectedClient(msg.sender_id, std_string(msg.client_name),
                           sender_ip, t))

\* update_client_list(): refresh the first entry of the sender, or push_back
update_client_list(clients, msg, sender_ip, t) ==
    IF \E i \in 1..Len(clients) : clients[i].client_id = msg.sender_id
    THEN LET i == CHOOSE k \in 1..Len(clients) :
                    /\ clients[k].client_id = msg.sender_id
                    /\ \A j \in 1..(k - 1) :
                          clients[j].client_id # msg.sender_id
         IN  [clients EXCEPT ![i] =
                [@ EXCEPT !.last_heartbeat = t,
                          !.name = std_string(msg.client_name),
                          !.ip_address = sender_ip]]
    ELSE Append(clients,
                ConnectedClient(msg.sender_id, std_string(msg.client_name),
                                sender_ip, t))

\* std::chrono::duration_cast<std::chrono::seconds>(d).count(): the whole
\* seconds of a duration, the fraction dropped
duration_cast_seconds(d) == d \div TICKS_PER_SECOND

\* a sweep that erases an entry as soon as its age reaches the timeout
cleanup_stale_clients_mut(clients, t) ==
    LET fresh(client) ==
            ~(duration_cast_seconds(t - client.last_heartbeat)
                >= CLIENT_TIMEOUT_SECONDS)
    IN  SelectSeq(clients, fresh)

\* cleanup_stale_clients(): erase the entries last heard of more than
\* CLIENT_TIMEOUT_SECONDS whole seconds ago
cleanup_stale_clients(clients, t) ==
    LET fresh(client) ==
            ~(duration_cast_seconds(t - client.last_heartbeat)
                > CLIENT_TIMEOUT_SECONDS)
    IN  SelectSeq(clients, fresh)

(***************************************************************************)
(* SyncManager                                                             *)
(***************************************************************************)
handle_sync_message_mut(msg) ==
    CASE msg.type = SYNC_CUE -> <<"on_sync_cue">>
      [] msg.type = SEEK_CUE -> <<"on_seek_cue">>
      [] msg.type = PAUSE_CUE -> <<"on_pause_cue">>
      [] msg.type = RESUME_CUE -> <<"on_resume_cue">>
      [] msg.type = CLIENT_ANNOUNCE -> <<"on_client_connected">>
      [] OTHER -> <<>>

\* handle_sync_message(): the callbacks it invokes, every callback being set
handle_sync_message(msg) ==
    IF msg.sender_id = my_client_id THEN <<>>
    ELSE CASE msg.type = SYNC_CUE -> <<"on_sync_cue">>
           [] msg.type = SEEK_CUE -> <<"on_seek_cue">>
           [] msg.type = PAUSE_CUE -> <<"on_pause_cue">>
           [] msg.type = RESUME_CUE -> <<"on_resume_cue">>
           [] msg.type = CLIENT_ANNOUNCE -> <<"on_client_connected">>
           [] OTHER -> <<>>

\* ---- server_thread ----
\* handle_message(): update_client_list(), then the callback, which
\* SyncManager::initialize() has set to handle_sync_message(); the logging
\* switch that follows changes nothing
handle_message(msg, sender_ip) ==
    /\ connected_clients' = update_client_list(connected_clients, msg,
                                               sender_ip, steady_now)
    /\ callback_log' = IF message_callback
                       THEN callback_log \o handle_sync_message(msg)
                       ELSE callback_log

\* the body of server_loop() when recvfrom() returned a datagram of the set
\* arriving: the size, magic and checksum tests and, when they pass,
\* handle_message()
server_loop_body(arriving) ==
    /\ Len(callback_log) < MaxCallbacks
    /\ \E dgram \in arriving :
         LET received == recvfrom(dgram, MAX_MESSAGE_SIZE)
             msg == dgram.msg
         IN  /\ s_dgram' = dgram
             /\ IF /\ received = SIZEOF_SyncMessage
                   /\ msg.magic = MAGIC
                   /\ validate_checksum(msg)
                THEN handle_message(msg, dgram.from)
                ELSE UNCHANGED <<connected_clients, callback_log>>
    /\ s_pc' = "done"
    /\ UNCHANGED <<ringVars, ringHist, audioVars, auxVars, enabled, m_pc, running,
                   socket_fd, message_callback, h_pc, steady_now>>

\* one iteration of server_loop(), the test of the flag included
server_loop_iteration(arriving) ==
    /\ s_pc = "recv"
    /\ running
    /\ server_loop_body(arriving)

\* any datagram arrives
server_loop_recv == server_loop_iteration(Datagrams)

\* a HEARTBEAT of a peer arrives
PeerHeartbeats ==
    {[len |-> SIZEOF_SyncMessage, from |-> AddressOf(<<66>>),
      msg |-> create_heartbeat(id, <<66>>, 5)] : id \in PeerIds}

server_loop_recv_heartbeat == server_loop_iteration(PeerHeartbeats)

\* a cue and a HEARTBEAT of a peer
PeerTraffic ==
    PeerHeartbeats
      \cup {[len |-> SIZEOF_SyncMessage, from |-> AddressOf(<<66>>),
              msg |-> create_pause_cue(id, <<66>>, 5)] : id \in PeerIds}

\* server_loop() in two steps, as ServerSpec takes it: while (running.load())
\* found the flag set ...
server_loop_enter ==
    /\ s_pc = "recv"
    /\ running
    /\ s_pc' = "recvfrom"
    /\ UNCHANGED <<ringVars, ringHist, audioVars, auxVars, enabled, m_pc, running,
                   socket_fd, message_callback, connected_clients, s_dgram,
                   h_pc, steady_now, callback_log>>

\* ... and the body, whatever the flag has become since
server_loop_receive ==
    /\ s_pc = "recvfrom"
    /\ server_loop_body(PeerTraffic)

\* ... the body when a HEARTBEAT of a peer arrives
server_loop_receive_heartbeat ==
    /\ s_pc = "recvfrom"
    /\ server_loop_body(PeerHeartbeats)

\* ... or recvfrom() failed with EAGAIN: sleep 1 ms, back to the test
server_loop_again ==
    /\ s_pc = "recvfrom"
    /\ s_pc' = "recv"
    /\ UNCHANGED <<ringVars, ringHist, audioVars, auxVars, enabled, m_pc, running,
                   socket_fd, message_callback, connected_clients, s_dgram,
                   h_pc, steady_now, callback_log>>

\* the end of that iteration: back to the test of the loop
server_loop_next ==
    /\ s_pc = "done"
    /\ s_pc' = "recv"
    /\ s_dgram' = NoDatagram
    /\ UNCHANGED <<ringVars, ringHist, audioVars, auxVars, enabled, m_pc, running,
                   socket_fd, message_callback, connected_clients, h_pc,
                   steady_now, callback_log>>

\* recvfrom() failed with EAGAIN or EWOULDBLOCK: sleep 1 ms and continue
server_loop_would_block ==
    /\ s_pc = "recv"
    /\ running
    /\ UNCHANGED vars

\* recvfrom() failed with another error: break
server_loop_error ==
    /\ s_pc = "recv"
    /\ running
    /\ s_pc' = "exited"
    /\ UNCHANGED <<ringVars, ringHist, audioVars, auxVars, enabled, m_pc, running,
                   socket_fd, message_callback, connected_clients, s_dgram,
                   h_pc, steady_now, callback_log>>

\* while (running.load()) found the flag cleared
server_loop_exit ==
    /\ s_pc = "recv"
    /\ ~running
    /\ s_pc' = "exited"
    /\ UNCHANGED <<ringVars, ringHist, audioVars, auxVars, enabled, m_pc, running,
                   socket_fd, message_callback, connected_clients, s_dgram,
                   h_pc, steady_now, callback_log>>

\* ---- heartbeat_thread ----
heartbeat_loop ==
    /\ h_pc = "run"
    /\ running
    /\ connected_clients' = cleanup_stale_clients(connected_clients, steady_now)
    /\ UNCHANGED <<ringVars, ringHist, audioVars, auxVars, enabled, m_pc, running,
                   socket_fd, message_callback, s_pc, s_dgram, h_pc,
                   steady_now, callback_log>>

heartbeat_loop_exit ==
    /\ h_pc = "run"
    /\ ~running
    /\ h_pc' = "exited"
    /\ UNCHANGED <<ringVars, ringHist, audioVars, auxVars, enabled, m_pc, running,
                   socket_fd, message_callback, connected_clients, s_pc,
                   s_dgram, steady_now, callback_log>>

\* heartbeat_loop() in two steps, as SweepSpec takes it: the sweep ...
heartbeat_loop_cleanup ==
    /\ h_pc = "run"
    /\ running
    /\ connected_clients' = cleanup_stale_clients(connected_clients, steady_now)
    /\ h_pc' = "sleep"
    /\ UNCHANGED <<ringVars, ringHist, audioVars, auxVars, enabled, m_pc, running,
                   socket_fd, message_callback, s_pc, s_dgram, steady_now,
                   callback_log>>

\* ... and the return of sleep_for(5 s) to the test of the loop
heartbeat_loop_sleep ==
    /\ h_pc = "sleep"
    /\ h_pc' = "run"
    /\ UNCHANGED <<ringVars, ringHist, audioVars, auxVars, enabled, m_pc, running,
                   socket_fd, message_callback, connected_clients, s_pc,
                   s_dgram, steady_now, callback_log>>

\* ---- the thread that owns the SyncManager ----
\* SyncManager::initialize(): set the callback, server->start() (which
\* fails when the socket cannot be set up), sender->initialize(); when the
\* sender fails the server is stopped again
initialize ==
    /\ m_pc = "idle"
    /\ ~enabled
    /\ message_callback' = TRUE
    /\ \E socket_ok \in BOOLEAN, sender_ok \in BOOLEAN :
         IF ~socket_ok
         THEN UNCHANGED <<enabled, m_pc, running, socket_fd, s_pc, h_pc>>
         ELSE /\ socket_fd' = 3
              /\ running' = TRUE
              /\ s_pc' = "recv"
              /\ h_pc' = "run"
              /\ enabled' = sender_ok
              /\ m_pc' = IF sender_ok THEN "idle" ELSE "stop"
    /\ UNCHANGED <<ringVars, ringHist, audioVars, auxVars, connected_clients, s_dgram,
                   steady_now, callback_log>>

\* SyncManager::shutdown() up to the call of server->stop()
shutdown ==
    /\ m_pc = "idle"
    /\ enabled
    /\ enabled' = FALSE
    /\ m_pc' = "stop"
    /\ UNCHANGED <<ringVars, ringHist, audioVars, auxVars, serverVars, steady_now,
                   callback_log>>

\* ---- UDPSyncServer::start() and stop() called on the server itself ----
call_start ==
    /\ m_pc = "idle"
    /\ m_pc' = "start"
    /\ UNCHANGED <<ringVars, ringHist, audioVars, auxVars, enabled, serverVars,
                   steady_now, callback_log>>

call_stop ==
    /\ m_pc = "idle"
    /\ m_pc' = "stop"
    /\ UNCHANGED <<ringVars, ringHist, audioVars, auxVars, enabled, serverVars,
                   steady_now, callback_log>>

\* UDPSyncServer::start(): nothing when running; otherwise setup_socket(),
\* which leaves socket_fd at -1 when it fails, then the flag and both threads
start ==
    /\ m_pc = "start"
    /\ m_pc' = "idle"
    /\ IF running
       THEN UNCHANGED <<running, socket_fd, s_pc, h_pc>>
       ELSE \E socket_ok \in BOOLEAN :
              IF ~socket_ok
              THEN socket_fd' = -1 /\ UNCHANGED <<running, s_pc, h_pc>>
              ELSE /\ socket_fd' = 3
                   /\ running' = TRUE
                   /\ s_pc' = "recv"
                   /\ h_pc' = "run"
    /\ UNCHANGED <<ringVars, ringHist, audioVars, auxVars, enabled,
                   message_callback, connected_clients, s_dgram, steady_now,
                   callback_log>>

\* UDPSyncServer::stop(): clear the flag, then wait for both threads
stop ==
    /\ m_pc = "stop"
    /\ IF ~running
       THEN m_pc' = "idle" /\ UNCHANGED running
       ELSE running' = FALSE /\ m_pc' = "join"
    /\ UNCHANGED <<ringVars, ringHist, audioVars, auxVars, enabled, socket_fd,
                   message_callback, connected_clients, s_pc, s_dgram, h_pc,
                   steady_now, callback_log>>

\* stop() that joins the heartbeat thread only
stop_join_mut ==
    /\ m_pc = "join"
    /\ h_pc = "exited"
    /\ socket_fd' = -1
    /\ connected_clients' = <<>>
    /\ s_pc' = IF s_pc = "exited" THEN "none" ELSE s_pc
    /\ h_pc' = "none"
    /\ m_pc' = "idle"
    /\ UNCHANGED <<ringVars, ringHist, audioVars, auxVars, enabled, running,
                   message_callback, s_dgram, steady_now, callback_log>>

\* both joins returned: cleanup_socket() and connected_clients.clear()
stop_join ==
    /\ m_pc = "join"
    /\ s_pc = "exited"
    /\ h_pc = "exited"
    /\ socket_fd' = -1
    /\ connected_clients' = <<>>
    /\ s_pc' = "none"
    /\ h_pc' = "none"
    /\ m_pc' = "idle"
    /\ UNCHANGED <<ringVars, ringHist, audioVars, auxVars, enabled, running,
                   message_callback, s_dgram, steady_now, callback_log>>

\* the steady clock advances by 10 s
steady_clock_tick ==
    /\ steady_now < MaxNow * COARSE_TICK
    /\ steady_now' = steady_now + COARSE_TICK
    /\ UNCHANGED <<ringVars, ringHist, audioVars, auxVars, enabled, m_pc, serverVars,
                   callback_log>>

\* the steady clock advances by half a second
steady_clock_step ==
    /\ steady_now < MaxSweepSeconds * TICKS_PER_SECOND
    /\ steady_now' = steady_now + 1
    /\ UNCHANGED <<ringVars, ringHist, audioVars, auxVars, enabled, m_pc, serverVars,
                   callback_log>>

\* SyncManager and its UDPSyncServer once initialize() has returned true
SyncManagerStarted ==
    /\ enabled = TRUE
    /\ m_pc = "idle"
    /\ running = TRUE
    /\ socket_fd = 3
    /\ message_callback = TRUE
    /\ connected_clients = <<>>
    /\ s_pc = "recv"
    /\ s_dgram = NoDatagram
    /\ h_pc = "run"
    /\ steady_now = 0
    /\ callback_log = <<>>

\* a UDPSyncServer as constructed, its message callback set
ServerConstructed ==
    /\ enabled = FALSE
    /\ m_pc = "idle"
    /\ running = FALSE
    /\ socket_fd = -1
    /\ message_callback = TRUE
    /\ connected_clients = <<>>
    /\ s_pc = "none"
    /\ s_dgram = NoDatagram
    /\ h_pc = "none"
    /\ steady_now = 0
    /\ callback_log = <<>>

\* SyncManager and its UDPSyncServer as constructed
SyncManagerInit ==
    /\ enabled = FALSE
    /\ m_pc = "idle"
    /\ running = FALSE
    /\ socket_fd = -1
    /\ message_callback = FALSE
    /\ connected_clients = <<>>
    /\ s_pc = "none"
    /\ s_dgram = NoDatagram
    /\ h_pc = "none"
    /\ steady_now = 0
    /\ callback_log = <<>>

(***************************************************************************)
(* UDPSyncSender                                                           *)
(***************************************************************************)
HEARTBEAT_INTERVAL_SECONDS == 10

\* what sendto() can return for a message of sizeof(SyncMessage) bytes: an
\* error, fewer bytes, all bytes
SendResults == {-1, SIZEOF_SyncMessage - 1, SIZEOF_SyncMessage}

\* send_to_sockaddr(): false when sendto() failed or sent another number of
\* bytes than sizeof(SyncMessage)
send_to_sockaddr(sent) ==
    IF sent < 0 THEN FALSE
    ELSE IF sent # SIZEOF_SyncMessage THEN FALSE
    ELSE TRUE

\* UDPSyncSender as constructed
SenderAtRest ==
    /\ heartbeat_running = FALSE
    /\ sender_fd = -1
    /\ hb_pc = "none"
    /\ hb_i = -1
    /\ hb_sent = <<>>

\* after initialize() and start_heartbeat()
SenderStarted ==
    /\ heartbeat_running = TRUE
    /\ sender_fd = 4
    /\ hb_pc = "loop"
    /\ hb_i = -1
    /\ hb_sent = <<>>

\* ---- heartbeat_thread of the sender ----
\* heartbeat_loop(): while (heartbeat_running.load())
sender_heartbeat_loop ==
    /\ hb_pc = "loop"
    /\ hb_pc' = IF heartbeat_running THEN "send" ELSE "exited"
    /\ UNCHANGED <<notSender, heartbeat_running, sender_fd, hb_i, hb_sent>>

\* a heartbeat_loop() that returns when the broadcast failed
sender_heartbeat_send_mut ==
    /\ hb_pc = "send"
    /\ \E sent \in SendResults :
          /\ hb_sent' = <<sent>>
          /\ hb_pc' = IF send_to_sockaddr(sent) THEN "sleep_test" ELSE "exited"
    /\ hb_i' = 0
    /\ UNCHANGED <<notSender, heartbeat_running, sender_fd>>

\* create_heartbeat() and broadcast_message(), whose result is dropped;
\* then int i = 0
sender_heartbeat_send ==
    /\ hb_pc = "send"
    /\ \E sent \in SendResults : hb_sent' = <<sent>>
    /\ hb_i' = 0
    /\ hb_pc' = "sleep_test"
    /\ UNCHANGED <<notSender, heartbeat_running, sender_fd>>

\* i < HEARTBEAT_INTERVAL_SECONDS && heartbeat_running.load()
sender_heartbeat_sleep_test ==
    /\ hb_pc = "sleep_test"
    /\ hb_pc' = IF hb_i < HEARTBEAT_INTERVAL_SECONDS /\ heartbeat_running
                THEN "sleeping" ELSE "loop"
    /\ hb_sent' = <<>>
    /\ UNCHANGED <<notSender, heartbeat_running, sender_fd, hb_i>>

\* sleep_for(seconds(1)) returns; ++i
sender_heartbeat_sleep ==
    /\ hb_pc = "sleeping"
    /\ hb_i' = hb_i + 1
    /\ hb_pc' = "sleep_test"
    /\ UNCHANGED <<notSender, heartbeat_running, sender_fd, hb_sent>>

\* ---- SyncManager::shutdown() with the sender running ----
\* enabled = false, then sender->shutdown(): stop_heartbeat() clears the
\* flag and joins
manager_shutdown ==
    /\ m_pc = "idle"
    /\ enabled
    /\ enabled' = FALSE
    /\ IF heartbeat_running
       THEN /\ heartbeat_running' = FALSE
            /\ m_pc' = "hb_join"
            /\ UNCHANGED sender_fd
       ELSE /\ sender_fd' = -1
            /\ m_pc' = "stop"
            /\ UNCHANGED heartbeat_running
    /\ UNCHANGED <<ringVars, ringHist, audioVars, wireVars, sendVars,
                   dispatchVars, videoVars, accessVars, configVars, keyVars, lockVars, peerVars,
                   serverVars, steady_now, callback_log, hb_pc, hb_i, hb_sent>>

\* stop_heartbeat() that does not wait for the thread
stop_heartbeat_join_mut ==
    /\ m_pc = "hb_join"
    /\ sender_fd' = -1
    /\ m_pc' = "stop"
    /\ UNCHANGED <<ringVars, ringHist, audioVars, wireVars, sendVars,
                   dispatchVars, videoVars, accessVars, configVars, keyVars, lockVars, peerVars, enabled, serverVars, steady_now, callback_log, heartbeat_running, hb_pc, hb_i,
                   hb_sent>>

\* heartbeat_thread.join() returned: cleanup_socket(), then server->stop()
stop_heartbeat_join ==
    /\ m_pc = "hb_join"
    /\ hb_pc = "exited"
    /\ sender_fd' = -1
    /\ m_pc' = "stop"
    /\ UNCHANGED <<ringVars, ringHist, audioVars, wireVars, sendVars,
                   dispatchVars, videoVars, accessVars, configVars, keyVars, lockVars, peerVars, enabled, serverVars, steady_now, callback_log, heartbeat_running, hb_pc, hb_i,
                   hb_sent>>

\* ---- the outbound send operations ----
\* Each operator gives the value returned and what the sendto() calls
\* performed returned; r, or the sequence rs, is what sendto() returns to
\* the calls in order.
NoCall == [op |-> "none", enable_broadcast |-> FALSE, ips |-> <<>>]

NothingSent(ret) == [ret |-> ret, sent |-> <<>>]

\* target addresses of the configuration; inet_aton() rejects the second
Addresses == {"10.0.0.2", "10.0.0.256"}

inet_aton(ip_address) == IF ip_address = "10.0.0.256" THEN 0 ELSE 1

\* targets configured at most
MaxTargets == 2

\* broadcast_message(msg); send_*_cue(), send_client_announce() and
\* send_message() build a message and return its result
broadcast_message(fd, r) ==
    IF fd < 0 THEN NothingSent(FALSE)
    ELSE [ret |-> send_to_sockaddr(r), sent |-> <<r>>]

\* send_to_address(msg, ip_address)
send_to_address(fd, ip_address, r) ==
    IF fd < 0 THEN NothingSent(FALSE)
    ELSE IF inet_aton(ip_address) = 0 THEN NothingSent(FALSE)
    ELSE [ret |-> send_to_sockaddr(r), sent |-> <<r>>]

\* send_to_addresses(msg, addresses): every address is tried
RECURSIVE send_to_addresses(_, _, _)
send_to_addresses(fd, addresses, rs) ==
    IF addresses = <<>> THEN NothingSent(TRUE)
    ELSE LET first == send_to_address(fd, Head(addresses), Head(rs))
             rest == send_to_addresses(fd, Tail(addresses), Tail(rs))
         IN  [ret |-> first.ret /\ rest.ret, sent |-> first.sent \o rest.sent]

\* SyncManager::broadcast_sync_cue() and the other three broadcast_*()
manager_broadcast(is_enabled, fd, r) ==
    IF ~is_enabled THEN NothingSent(FALSE) ELSE broadcast_message(fd, r)

\* SyncManager::send_targeted_sync_cue() and the other three
\* send_targeted_*(): the result of the broadcast is not looked at
send_targeted(is_enabled, enable_broadcast, fd, target_ips, r, rs) ==
    IF ~is_enabled THEN NothingSent(FALSE)
    ELSE LET b == IF enable_broadcast THEN broadcast_message(fd, r)
                  ELSE NothingSent(TRUE)
         IN  IF target_ips # <<>>
             THEN LET t == send_to_addresses(fd, target_ips, rs)
                  IN  [ret |-> t.ret, sent |-> b.sent \o t.sent]
             ELSE [ret |-> enable_broadcast, sent |-> b.sent]

SendAtRest ==
    /\ snd_call = NoCall
    /\ snd_sent = <<>>
    /\ snd_ret = <<>>

\* a call returns: what the model keeps of it
Returned(op, enable_broadcast, ips, result) ==
    /\ snd_call' = [op |-> op, enable_broadcast |-> enable_broadcast,
                    ips |-> ips]
    /\ snd_sent' = result.sent
    /\ snd_ret' = <<result.ret>>
    /\ UNCHANGED notSend

call_broadcast_message ==
    \E r \in SendResults :
        Returned("broadcast_message", FALSE, <<>>,
                 broadcast_message(sender_fd, r))

call_send_to_address ==
    \E ip \in Addresses, r \in SendResults :
        Returned("send_to_address", FALSE, <<ip>>,
                 send_to_address(sender_fd, ip, r))

call_send_to_addresses ==
    \E n \in 0..MaxTargets :
        \E ips \in [1..n -> Addresses], rs \in [1..n -> SendResults] :
            Returned("send_to_addresses", FALSE, ips,
                     send_to_addresses(sender_fd, ips, rs))

call_manager_broadcast ==
    \E r \in SendResults :
        Returned("broadcast", FALSE, <<>>,
                 manager_broadcast(enabled, sender_fd, r))

call_send_targeted ==
    \E n \in 0..MaxTargets, enable_broadcast \in BOOLEAN, r \in SendResults :
        \E ips \in [1..n -> Addresses], rs \in [1..n -> SendResults] :
            Returned("send_targeted", enable_broadcast, ips,
                     send_targeted(enabled, enable_broadcast, sender_fd, ips,
                                   r, rs))

\* no call made on the VideoManager yet
NoVideoOp == [op |-> "none", arg |-> 0]

\* VideoManager with its cache loaded, no seek made yet
VideoAtRest ==
    /\ current_frame = 0
    /\ video_clock = 0
    /\ last_percentage = -1
    /\ once = NoSnapshot
    /\ cache_loaded = TRUE
    /\ video_cache = VideoPts
    /\ video_op = NoVideoOp

\* ---- VideoManager: the cache thread, set_current_frame, seek ----
\* frames cached at most
MaxFrames == 3
\* percentages passed to VideoManager::seek_to_percentage()
SeekPercentages == {-10, 0, 29, 50, 99, 100, 150}
\* the pts of the frame cached as number n (from 0)
frame_pts(n) == 4 * n

\* all variables but those of the VideoManager
notVideo == <<ringVars, ringHist, audioVars, netVars, otherAux,
              last_percentage, once>>

\* cache_video_frames(): one more frame is pushed on video_cache
cache_video_frames_push ==
    /\ ~cache_loaded
    /\ Len(video_cache) < MaxFrames
    /\ video_cache' = Append(video_cache, frame_pts(Len(video_cache)))
    /\ video_op' = [op |-> "cache", arg |-> Len(video_cache)]
    /\ UNCHANGED <<notVideo, current_frame, video_clock, cache_loaded>>

\* cache_video_frames(): cache_loaded.store(true), with any number of
\* frames cached, none included
cache_video_frames_done ==
    /\ ~cache_loaded
    /\ cache_loaded' = TRUE
    /\ video_op' = [op |-> "loaded", arg |-> Len(video_cache)]
    /\ UNCHANGED <<notVideo, current_frame, video_clock, video_cache>>

\* VideoManager::set_current_frame(frame)
set_current_frame(frame) ==
    /\ current_frame' = IF frame >= 0 /\ frame < Len(video_cache)
                        THEN frame ELSE current_frame
    /\ video_op' = [op |-> "set", arg |-> frame]
    /\ UNCHANGED <<notVideo, video_clock, cache_loaded, video_cache>>

\* VideoManager::seek_to_percentage(percentage)
VideoManager_seek_to_percentage(percentage) ==
    LET max_frame == Len(video_cache) - 1
        frame == target_frame(percentage, max_frame)
    IN  /\ IF cache_loaded /\ frame >= 0 /\ frame <= max_frame
           THEN /\ current_frame' = frame
                /\ video_clock' = video_cache[frame + 1]
           ELSE UNCHANGED <<current_frame, video_clock>>
        /\ video_op' = [op |-> "seek", arg |-> percentage]
        /\ UNCHANGED <<notVideo, cache_loaded, video_cache>>

\* ---- handle_sync_message() with the callbacks and their arguments ----
Callbacks ==
    {"on_sync_cue", "on_seek_cue", "on_pause_cue", "on_resume_cue",
     "on_client_connected"}

\* a call of a callback that is set, nothing for one that is not
Invoke(callback, args, set) ==
    IF callback \in set THEN <<[callback |-> callback, args |-> args]>>
    ELSE <<>>

\* std::string(msg.client_name): the bytes from the start of client_name
\* to the first zero byte, which the 32 bytes of the field hold only when
\* the name is shorter; the bytes of the checksum follow the field, and a
\* checksum that validates has a zero among them
client_name_string(msg) ==
    std_string(name_field(msg.client_name) \o LittleEndian(msg.checksum, 4))

\* handle_sync_message(msg, sender_ip): the calls it makes, in order
handle_sync_message_calls(msg, sender_ip, set) ==
    IF msg.sender_id = my_client_id THEN <<>>
    ELSE CASE msg.type = SYNC_CUE ->
                Invoke("on_sync_cue", <<msg.frame_number>>, set)
           [] msg.type = SEEK_CUE ->
                Invoke("on_seek_cue", <<msg.seek_position>>, set)
           [] msg.type = PAUSE_CUE -> Invoke("on_pause_cue", <<>>, set)
           [] msg.type = RESUME_CUE -> Invoke("on_resume_cue", <<>>, set)
           [] msg.type = CLIENT_ANNOUNCE ->
                Invoke("on_client_connected",
                       <<msg.sender_id, client_name_string(msg), sender_ip>>,
                       set)
           [] OTHER -> <<>>

\* messages that pass the tests of server_loop() without coming from a
\* factory: a CLIENT_ANNOUNCE whose name fills the 32 bytes, and a type
\* the enumeration does not have
FullName == [k \in 1..32 |-> 65]

CraftedMessages ==
    {create_message(CLIENT_DISCOVER + 2, id, 0, 0, <<65>>, 5) : id \in PeerIds}
      \cup {calculate_checksum([SyncMessage EXCEPT
                !.type = CLIENT_ANNOUNCE, !.sender_id = id,
                !.timestamp_us = 5, !.client_name = FullName]) :
             id \in PeerIds}

\* every message of the model that server_loop() hands to handle_message()
ValidMessages ==
    {m \in FactoryMessages \cup DiscoverMessages \cup CraftedMessages :
        m.magic = MAGIC /\ validate_checksum(m)}

NotHandled ==
    [msg |-> SyncMessage, sender_ip |-> "", set |-> {}, calls |-> <<>>,
     handled |-> FALSE]

DispatchAtRest ==
    /\ on_callbacks = {}
    /\ d_last = NotHandled

\* set_sync_callback() and the other setters, with a callable or with an
\* empty std::function
set_callback ==
    /\ \E callback \in Callbacks :
          on_callbacks' = IF callback \in on_callbacks
                          THEN on_callbacks \ {callback}
                          ELSE on_callbacks \cup {callback}
    /\ UNCHANGED <<notDispatch, d_last>>

\* server_loop() received a valid message: handle_message() calls the
\* message callback, which is handle_sync_message()
deliver ==
    /\ \E msg \in ValidMessages :
          d_last' = [msg |-> msg, sender_ip |-> AddressOf(msg.client_name),
                     set |-> on_callbacks,
                     calls |-> handle_sync_message_calls(
                                   msg, AddressOf(msg.client_name),
                                   on_callbacks),
                     handled |-> TRUE]
    /\ UNCHANGED <<notDispatch, on_callbacks>>

\* the variables of the parts a specification does not use
AuxAtRest ==
    /\ WireAtRest /\ SenderAtRest /\ SendAtRest /\ DispatchAtRest
    /\ VideoAtRest /\ AccessAtRest /\ ConfigAtRest /\ KeysAtRest /\ LocksAtRest /\ PeerAtRest

\* the audio variables while a specification does not use them
AudioAtRest ==
    /\ audio_frame_cache = <<>>
    /\ AudioManagerInit

\* after cache_audio_frames() and start_audio_thread()
AudioInit ==
    /\ capacity = AUDIO_BUFFER_SIZE
    /\ RingEmpty
    /\ audio_frame_cache \in Caches
    /\ AudioManagerInit
    /\ SyncManagerInit
    /\ AuxAtRest

AudioNext ==
    \/ audio_thread_func
    \/ handle_audio_seek_load
    \/ handle_audio_seek_clear
    \/ handle_audio_seek_index
    \/ audio_thread_seek_done
    \/ fill_audio_buffer_begin
    \/ fill_audio_buffer_check
    \/ fill_audio_buffer_loop
    \/ fill_audio_buffer_write
    \/ audio_callback_read
    \/ audio_callback_clock_get
    \/ audio_callback_clock_set
    \/ sync_to_position_target
    \/ sync_to_position_flag
    \/ sync_to_position_clock
    \/ sync_to_position_return
    \/ set_video_time

\* the same threads, the presentation thread also polling get_buffer_size()
ObserverNext ==
    \/ AudioNext
    \/ get_buffer_size_call
    \/ get_buffer_size_load_w
    \/ get_buffer_size_load_r
    \/ get_buffer_size_return

(***************************************************************************)
(* RingSpec: any sequence of write, read and clear calls on one buffer     *)
(***************************************************************************)
RingInit ==
    /\ capacity \in 1..MaxCap
    /\ RingEmpty
    /\ AudioAtRest
    /\ SyncManagerInit
    /\ AuxAtRest

RingWrite ==
    \E data \in BoundedSeq(Bytes, MaxLen) :
        /\ Len(accepted) + Len(data) <= MaxAccepted
        /\ write(data)
        /\ accepted' = accepted \o SubSeq(data, 1, write_count(data))
        /\ last_op' = [op |-> "write", arg |-> Len(data),
                       ret |-> write_count(data),
                       avail |-> available_write(write_pos, read_pos),
                       cleared |-> last_op.cleared]
        /\ UNCHANGED <<returned, audioVars, netVars, auxVars>>

RingRead ==
    \E size \in 0..MaxLen :
        /\ read(size)
        /\ returned' = returned \o read_copy(buffer, read_pos, read_count(size))
        /\ last_op' = [op |-> "read", arg |-> size,
                       ret |-> read_count(size),
                       avail |-> available_read(write_pos, read_pos),
                       cleared |-> last_op.cleared]
        /\ UNCHANGED <<accepted, audioVars, netVars, auxVars>>

RingClear ==
    /\ clear
    /\ accepted' = <<>>
    /\ returned' = <<>>
    /\ last_op' = [op |-> "clear", arg |-> 0, ret |-> 0, avail |-> 0,
                   cleared |-> available_read(write_pos, read_pos)]
    /\ UNCHANGED <<audioVars, netVars, auxVars>>


RingNext == RingWrite \/ RingRead \/ RingClear

RingSpec == RingInit /\ [][RingNext]_vars

\* any sequence of write and read calls on one buffer, without clear():
\* accepted and returned are then all bytes ever written and read
WriteReadNext == RingWrite \/ RingRead

WriteReadSpec == RingInit /\ [][WriteReadNext]_vars

AudioSpec == AudioInit /\ [][AudioNext]_vars

ObserverSpec == AudioInit /\ [][ObserverNext]_vars

(***************************************************************************)
(* NetSpec: one SyncManager with its UDPSyncServer, datagrams arriving     *)
(***************************************************************************)
NetInit ==
    /\ capacity = AUDIO_BUFFER_SIZE
    /\ RingEmpty
    /\ AudioAtRest
    /\ SyncManagerInit
    /\ AuxAtRest

NetNext ==
    \/ initialize
    \/ shutdown
    \/ stop
    \/ stop_join
    \/ server_loop_recv
    \/ server_loop_next
    \/ server_loop_would_block
    \/ server_loop_error
    \/ server_loop_exit
    \/ heartbeat_loop
    \/ heartbeat_loop_exit
    \/ steady_clock_tick

NetSpec == NetInit /\ [][NetNext]_vars

(***************************************************************************)
(* SweepSpec: a running server, the heartbeats of a peer and the membership *)
(* sweep, on a clock of half seconds                                       *)
(***************************************************************************)
SweepInit ==
    /\ capacity = AUDIO_BUFFER_SIZE
    /\ RingEmpty
    /\ AudioAtRest
    /\ SyncManagerStarted
    /\ AuxAtRest

SweepNext ==
    \/ server_loop_recv_heartbeat
    \/ server_loop_next
    \/ heartbeat_loop_cleanup
    \/ heartbeat_loop_sleep
    \/ steady_clock_step

SweepSpec == SweepInit /\ [][SweepNext]_vars

(***************************************************************************)
(* ServerSpec: start() and stop() called on one UDPSyncServer in any       *)
(* order, its two threads, the traffic of a peer                           *)
(***************************************************************************)
ServerInit ==
    /\ capacity = AUDIO_BUFFER_SIZE
    /\ RingEmpty
    /\ AudioAtRest
    /\ AuxAtRest
    /\ ServerConstructed

ServerNext ==
    \/ call_start
    \/ start
    \/ call_stop
    \/ stop
    \/ stop_join
    \/ server_loop_enter
    \/ server_loop_receive
    \/ server_loop_again
    \/ server_loop_next
    \/ server_loop_error
    \/ server_loop_exit
    \/ heartbeat_loop_cleanup
    \/ heartbeat_loop_sleep
    \/ heartbeat_loop_exit
    \/ steady_clock_tick

ServerSpec == ServerInit /\ [][ServerNext]_vars

(***************************************************************************)
(* LoopsSpec: the four background loops running, then stopped by their     *)
(* owners; every thread is scheduled again and again                       *)
(***************************************************************************)
LoopsInit ==
    /\ capacity = AUDIO_BUFFER_SIZE
    /\ RingEmpty
    /\ audio_frame_cache = <<[pts |-> 0, size |-> 2]>>
    /\ AudioManagerInit
    /\ SyncManagerStarted
    /\ WireAtRest
    /\ SendAtRest
    /\ DispatchAtRest
    /\ VideoAtRest /\ AccessAtRest /\ ConfigAtRest /\ KeysAtRest /\ LocksAtRest /\ PeerAtRest
    /\ SenderStarted

\* audio_thread: the feeder
FeederThread ==
    \/ audio_thread_func
    \/ fill_audio_buffer_begin
    \/ fill_audio_buffer_check
    \/ fill_audio_buffer_loop
    \/ fill_audio_buffer_write

\* server_thread: the UDP receive loop
ServerThread ==
    \/ server_loop_enter
    \/ server_loop_receive_heartbeat
    \/ server_loop_again
    \/ server_loop_next
    \/ server_loop_exit

\* heartbeat_thread of the server: the membership sweep
SweepThread ==
    \/ heartbeat_loop_cleanup
    \/ heartbeat_loop_sleep
    \/ heartbeat_loop_exit

\* heartbeat_thread of the sender
HeartbeatThread ==
    \/ sender_heartbeat_loop
    \/ sender_heartbeat_send
    \/ sender_heartbeat_sleep_test
    \/ sender_heartbeat_sleep

\* the owners: ~AudioManager() and SyncManager::shutdown()
Owners ==
    \/ stop_audio_thread
    \/ stop_audio_thread_join
    \/ manager_shutdown
    \/ stop_heartbeat_join
    \/ stop
    \/ stop_join

LoopsNext ==
    \/ FeederThread
    \/ ServerThread
    \/ server_loop_error
    \/ SweepThread
    \/ HeartbeatThread
    \/ Owners

\* the scheduler runs every thread that can take a step; sleeps and
\* non-blocking calls return
LoopsSpec ==
    /\ LoopsInit
    /\ [][LoopsNext]_vars
    /\ WF_vars(FeederThread)
    /\ WF_vars(ServerThread)
    /\ WF_vars(SweepThread)
    /\ WF_vars(HeartbeatThread)

(***************************************************************************)
(* ChecksumSpec: a message built by a factory, one byte before its         *)
(* checksum changed or not, then validated                                 *)
(***************************************************************************)
ChecksumInit ==
    /\ capacity = AUDIO_BUFFER_SIZE
    /\ RingEmpty
    /\ AudioAtRest
    /\ SyncManagerInit
    /\ w_bytes \in {to_bytes(m) : m \in FactoryMessages}
    /\ w_changed = FALSE
    /\ w_result = "none"
    /\ SenderAtRest
    /\ DispatchAtRest
    /\ VideoAtRest /\ AccessAtRest /\ ConfigAtRest /\ KeysAtRest /\ LocksAtRest /\ PeerAtRest
    /\ SendAtRest

ChecksumNext == change_byte \/ validate_buffer

ChecksumSpec == ChecksumInit /\ [][ChecksumNext]_vars

(***************************************************************************)
(* SendSpec: the send operations called one after another, on a manager    *)
(* that is constructed only or initialized                                 *)
(***************************************************************************)
SendInit ==
    /\ capacity = AUDIO_BUFFER_SIZE
    /\ RingEmpty
    /\ AudioAtRest
    /\ WireAtRest
    /\ DispatchAtRest
    /\ VideoAtRest /\ AccessAtRest /\ ConfigAtRest /\ KeysAtRest /\ LocksAtRest /\ PeerAtRest
    /\ SendAtRest
    /\ \/ SyncManagerInit /\ SenderAtRest
       \/ SyncManagerStarted /\ SenderStarted

SendNext ==
    \/ call_broadcast_message
    \/ call_send_to_address
    \/ call_send_to_addresses
    \/ call_manager_broadcast
    \/ call_send_targeted

SendSpec == SendInit /\ [][SendNext]_vars

(***************************************************************************)
(* DispatchSpec: valid messages handed to handle_sync_message() while the  *)
(* callbacks are set and unset                                             *)
(***************************************************************************)
DispatchInit ==
    /\ capacity = AUDIO_BUFFER_SIZE
    /\ RingEmpty
    /\ AudioAtRest
    /\ SyncManagerStarted
    /\ WireAtRest
    /\ SenderAtRest
    /\ SendAtRest
    /\ DispatchAtRest
    /\ VideoAtRest /\ AccessAtRest /\ ConfigAtRest /\ KeysAtRest /\ LocksAtRest /\ PeerAtRest

DispatchNext == set_callback \/ deliver

DispatchSpec == DispatchInit /\ [][DispatchNext]_vars

(***************************************************************************)
(* PlaybackSpec: steady playback, the feeder and the audio callback        *)
(* running while wall-clock time passes; no seek                           *)
(***************************************************************************)
PlaybackNext ==
    \/ audio_thread_func
    \/ fill_audio_buffer_begin
    \/ fill_audio_buffer_check
    \/ fill_audio_buffer_loop
    \/ fill_audio_buffer_write
    \/ audio_callback_read
    \/ audio_callback_clock_get
    \/ audio_callback_clock_set
    \/ set_video_time
    \/ wall_clock_tick

PlaybackSpec == AudioInit /\ [][PlaybackNext]_vars

(***************************************************************************)
(* ClockSpec: calls of AudioClock::set() from two threads and calls of     *)
(* AudioClock::get() from a third, while wall-clock time passes            *)
(***************************************************************************)
ClockNext ==
    \/ \E t \in Setters, timestamp \in SetTimestamps :
           AudioClock_set_lock(t, timestamp)
    \/ \E t \in Setters : AudioClock_set_store(t)
    \/ \E t \in Setters : AudioClock_set_anchor(t)
    \/ AudioClock_get_now
    \/ AudioClock_get_base
    \/ AudioClock_get_pts
    \/ AudioClock_get_return
    \/ wall_clock_tick

ClockInit ==
    /\ capacity = AUDIO_BUFFER_SIZE
    /\ RingEmpty
    /\ audio_frame_cache = <<[pts |-> 0, size |-> 2]>>
    /\ AudioManagerInit
    /\ SyncManagerInit
    /\ AuxAtRest

ClockSpec == ClockInit /\ [][ClockNext]_vars

(***************************************************************************)
(* VideoSpec: the cache thread filling the cache while set_current_frame() *)
(* and seek_to_percentage() are called on the VideoManager                 *)
(***************************************************************************)
\* VideoManager after initialize(): current_frame 0, nothing cached yet
VideoInit ==
    /\ capacity = AUDIO_BUFFER_SIZE
    /\ RingEmpty
    /\ audio_frame_cache = <<[pts |-> 0, size |-> 2]>>
    /\ AudioManagerInit
    /\ SyncManagerInit
    /\ WireAtRest /\ SenderAtRest /\ SendAtRest /\ DispatchAtRest
    /\ AccessAtRest /\ ConfigAtRest /\ KeysAtRest /\ LocksAtRest /\ PeerAtRest
    /\ current_frame = 0
    /\ video_clock = 0
    /\ last_percentage = -1
    /\ once = NoSnapshot
    /\ cache_loaded = FALSE
    /\ video_cache = <<>>
    /\ video_op = NoVideoOp

VideoNext ==
    \/ cache_video_frames_push
    \/ cache_video_frames_done
    \/ \E frame \in -1..MaxFrames : set_current_frame(frame)
    \/ \E percentage \in SeekPercentages :
           VideoManager_seek_to_percentage(percentage)

VideoSpec == VideoInit /\ [][VideoNext]_vars

(***************************************************************************)
(* ConfigSpec: SyncManagers made by create_default() and                   *)
(* create_with_config(), and load_config() on them, with any of the files  *)
(***************************************************************************)
ConfigInit ==
    /\ capacity = AUDIO_BUFFER_SIZE
    /\ RingEmpty
    /\ audio_frame_cache = <<[pts |-> 0, size |-> 2]>>
    /\ AudioManagerInit
    /\ SyncManagerInit
    /\ AuxAtRest

ConfigNext ==
    \/ \E file \in ConfigFiles : load_config(file)
    \/ \E file \in ConfigFiles : create_with_config(file)
    \/ create_default

ConfigSpec == ConfigInit /\ [][ConfigNext]_vars

(***************************************************************************)
(* KeysSpec: Space, M and seek keys handled by VideoPlayer::handle_key()   *)
(* during playback, the feeder running, the audio callback running while   *)
(* the device is not paused                                                *)
(***************************************************************************)
\* most Space and M keys handled in one run
MaxKeys == 3

\* all variables but those of the keys
notKeys == <<ringVars, ringHist, audioVars, netVars, wireVars, senderVars,
             sendVars, dispatchVars, videoVars, accessVars, configVars,
             lockVars, peerVars>>

\* AudioManager::start_playback(), audio_initialized being true
start_playback ==
    device_paused' = IF ~audio_muted /\ audio_thread_running THEN FALSE
                     ELSE device_paused

\* AudioManager::pause_playback(), audio_initialized being true
pause_playback == device_paused' = TRUE

\* handle_key(' '): is_paused is inverted, then the device is paused or
\* started
handle_key_space ==
    /\ p_pc = "idle"
    /\ Len(keys) < MaxKeys
    /\ is_paused' = ~is_paused
    /\ IF is_paused' THEN pause_playback ELSE start_playback
    /\ keys' = Append(keys, "space")
    /\ UNCHANGED <<notKeys, audio_muted>>

\* handle_key('m'): AudioManager::toggle_mute(), audio_initialized being true
toggle_mute ==
    /\ p_pc = "idle"
    /\ Len(keys) < MaxKeys
    /\ audio_muted' = ~audio_muted
    /\ device_paused' = IF audio_muted' THEN TRUE
                        ELSE IF audio_thread_running THEN FALSE
                        ELSE device_paused
    /\ keys' = Append(keys, "m")
    /\ UNCHANGED <<notKeys, is_paused>>

\* the device calls audio_callback_wrapper() while it is not paused; the
\* callback returns at once when is_muted()
device_callback ==
    /\ ~device_paused
    /\ ~audio_muted
    /\ audio_callback_read

KeysInit ==
    /\ capacity = AUDIO_BUFFER_SIZE
    /\ RingEmpty
    /\ audio_frame_cache = <<[pts |-> 0, size |-> 2], [pts |-> 10, size |-> 2]>>
    /\ AudioManagerInit
    /\ SyncManagerInit
    /\ AuxAtRest

KeysNext ==
    \/ handle_key_space
    \/ toggle_mute
    \/ seek_to_percentage
    \/ sync_audio_to_video_position
    \/ sync_to_position_flag
    \/ sync_to_position_clock
    \/ sync_to_position_return
    \/ audio_thread_func
    \/ handle_audio_seek_load
    \/ handle_audio_seek_clear
    \/ handle_audio_seek_index
    \/ audio_thread_seek_done
    \/ fill_audio_buffer_begin
    \/ fill_audio_buffer_check
    \/ fill_audio_buffer_loop
    \/ fill_audio_buffer_write
    \/ device_callback
    \/ audio_callback_clock_get
    \/ audio_callback_clock_set

KeysSpec == KeysInit /\ [][KeysNext]_vars

(***************************************************************************)
(* LocksSpec: the feeder, the audio callback and the presentation thread   *)
(* with every acquisition of audio_frame_mutex, buffer_mutex, clock_mutex  *)
(* and audio_sync_mutex a step of its own.  A critical section that takes  *)
(* no further mutex and calls nothing that blocks is one step, which       *)
(* releases the mutex.                                                     *)
(***************************************************************************)
\* the variables outside the audio path and the four mutexes
notAudio == <<ringHist, netVars, wireVars, senderVars, sendVars,
              dispatchVars, videoVars, configVars, keyVars, set_pc,
              set_timestamp, get_pc, get_now, get_base, get_pts, get_result,
              stored, clockHist, audio_frame_cache, current_video_time,
              p_w, p_ret, fill_level, p_fills, peerVars>>

\* a clear() that returns with buffer_mutex held
handle_audio_seek_clear_return_mut ==
    /\ f_pc = "seek_index"
    /\ read_pos' = 0
    /\ buffer_mutex' = buffer_mutex
    /\ f_pc' = "seek_lock"
    /\ UNCHANGED <<notAudio, capacity, buffer, write_pos, audio_cache_index,
                   seek_requested, seek_target, audio_thread_running,
                   audio_should_stop, clockVars, feederLocals, cb_pc,
                   cbLocals, p_pc, p_position, seekHist, clock_mutex,
                   lockVars, peerVars>>

\* handle_audio_seek: clear() stores read_pos and releases buffer_mutex
handle_audio_seek_clear_return ==
    /\ f_pc = "seek_index"
    /\ read_pos' = 0
    /\ buffer_mutex' = "free"
    /\ f_pc' = "seek_lock"
    /\ UNCHANGED <<notAudio, capacity, buffer, write_pos, audio_cache_index,
                   seek_requested, seek_target, audio_thread_running,
                   audio_should_stop, clockVars, feederLocals, cb_pc,
                   cbLocals, p_pc, p_position, seekHist, clock_mutex,
                   lockVars, peerVars>>

\* handle_audio_seek: std::lock_guard<std::mutex> lock(audio_frame_mutex)
handle_audio_seek_lock ==
    /\ f_pc = "seek_lock"
    /\ audio_frame_mutex = "free"
    /\ audio_frame_mutex' = "feeder"
    /\ f_pc' = "seek_search"
    /\ UNCHANGED <<notAudio, ringVars, buffer_mutex, audio_cache_index,
                   seek_requested, seek_target, audio_thread_running,
                   audio_should_stop, clockVars, feederLocals, cb_pc,
                   cbLocals, p_pc, p_position, seekHist, clock_mutex,
                   audio_sync_mutex>>

\* handle_audio_seek: the search loop sets audio_cache_index, the function
\* returns and releases audio_frame_mutex
handle_audio_seek_search ==
    /\ f_pc = "seek_search"
    /\ audio_cache_index' = seek_index(audio_frame_cache, f_target)
    /\ reloc_target' = f_target
    /\ f_target' = 0
    /\ audio_frame_mutex' = "free"
    /\ f_pc' = "seek_done"
    /\ UNCHANGED <<notAudio, ringVars, buffer_mutex, seek_requested,
                   seek_target, audio_thread_running, audio_should_stop,
                   clockVars, f_video_time, cb_pc, cbLocals, p_pc,
                   p_position, sync_calls, clock_mutex, audio_sync_mutex>>

\* fill_audio_buffer: return when available_read() > MIN_BUFFER_SIZE
fill_audio_buffer_test ==
    /\ f_pc = "fill_check"
    /\ f_pc' = IF available_read(write_pos, read_pos) > MIN_BUFFER_SIZE
               THEN "loop" ELSE "fill_lock"
    /\ f_video_time' = IF f_pc' = "loop" THEN 0 ELSE f_video_time
    /\ UNCHANGED <<notAudio, ringVars, buffer_mutex, audio_cache_index,
                   seek_requested, seek_target, audio_thread_running,
                   audio_should_stop, clockVars, f_target, cb_pc, cbLocals,
                   p_pc, p_position, seekHist, clock_mutex, lockVars, peerVars>>

\* fill_audio_buffer: std::lock_guard<std::mutex> lock(audio_frame_mutex)
fill_audio_buffer_lock ==
    /\ f_pc = "fill_lock"
    /\ audio_frame_mutex = "free"
    /\ audio_frame_mutex' = "feeder"
    /\ f_pc' = "fill_loop"
    /\ UNCHANGED <<notAudio, ringVars, buffer_mutex, audio_cache_index,
                   seek_requested, seek_target, audio_thread_running,
                   audio_should_stop, clockVars, feederLocals, cb_pc,
                   cbLocals, p_pc, p_position, seekHist, clock_mutex,
                   audio_sync_mutex>>

\* fill_audio_buffer: the while condition and the threshold test; leaving
\* the loop the function returns and releases audio_frame_mutex
fill_audio_buffer_while ==
    /\ f_pc = "fill_loop"
    /\ f_pc' = IF /\ audio_cache_index < Len(audio_frame_cache)
                  /\ available_write(write_pos, read_pos) > FILL_ROOM
                  /\ audio_frame_cache[audio_cache_index + 1].pts
                        <= f_video_time + AUDIO_SYNC_THRESHOLD
               THEN "write_lock" ELSE "loop"
    /\ f_video_time' = IF f_pc' = "loop" THEN 0 ELSE f_video_time
    /\ audio_frame_mutex' = IF f_pc' = "loop" THEN "free"
                            ELSE audio_frame_mutex
    /\ UNCHANGED <<notAudio, ringVars, buffer_mutex, audio_cache_index,
                   seek_requested, seek_target, audio_thread_running,
                   audio_should_stop, clockVars, f_target, cb_pc, cbLocals,
                   p_pc, p_position, seekHist, clock_mutex,
                   audio_sync_mutex>>

\* write(): std::lock_guard<std::mutex> lock(buffer_mutex), called by the
\* feeder while it holds audio_frame_mutex
write_lock ==
    /\ f_pc = "write_lock"
    /\ buffer_mutex = "free"
    /\ buffer_mutex' = "feeder"
    /\ f_pc' = "fill_write"
    /\ UNCHANGED <<notAudio, ringVars, audio_cache_index,
                   seek_requested, seek_target, audio_thread_running,
                   audio_should_stop, clockVars, feederLocals, cb_pc,
                   cbLocals, p_pc, p_position, seekHist, clock_mutex,
                   lockVars, peerVars>>

\* write() copies and releases buffer_mutex; fill_audio_buffer advances the
\* index when bytes went in, else returns and releases audio_frame_mutex
fill_audio_buffer_copy ==
    /\ f_pc = "fill_write"
    /\ LET data == chunk_data(audio_cache_index)
           written == write_count(data)
       IN  /\ write(data)
           /\ buffer_mutex' = "free"
           /\ audio_cache_index' = IF written > 0 THEN audio_cache_index + 1
                                   ELSE audio_cache_index
           /\ f_pc' = IF written > 0 THEN "fill_loop" ELSE "loop"
           /\ f_video_time' = IF written > 0 THEN f_video_time ELSE 0
           /\ audio_frame_mutex' = IF written > 0 THEN audio_frame_mutex
                                   ELSE "free"
    /\ UNCHANGED <<notAudio, seek_requested, seek_target,
                   audio_thread_running, audio_should_stop, clockVars,
                   f_target, cb_pc, cbLocals, p_pc, p_position, seekHist,
                   clock_mutex, audio_sync_mutex>>

\* read(): std::lock_guard<std::mutex> lock(buffer_mutex), called by
\* audio_callback_wrapper
read_lock ==
    /\ cb_pc = "idle"
    /\ buffer_mutex = "free"
    /\ buffer_mutex' = "callback"
    /\ cb_pc' = "read"
    /\ UNCHANGED <<notAudio, ringVars, audio_cache_index, flags_but_time,
                   clockVars, f_pc, feederLocals, cbLocals, p_pc,
                   p_position, seekHist, clock_mutex, lockVars, peerVars>>

\* read() copies and releases buffer_mutex; the callback returns when
\* nothing was read
audio_callback_copy ==
    /\ cb_pc = "read"
    /\ read(CALLBACK_LEN)
    /\ buffer_mutex' = "free"
    /\ cb_bytes' = read_count(CALLBACK_LEN)
    /\ cb_pc' = IF read_count(CALLBACK_LEN) > 0 THEN "clock_get" ELSE "idle"
    /\ UNCHANGED <<notAudio, audio_cache_index, flags_but_time, clockVars,
                   f_pc, feederLocals, cb_time, p_pc, p_position, seekHist,
                   clock_mutex, lockVars, peerVars>>

\* set(): std::lock_guard<std::mutex> lock(clock_mutex), called by
\* audio_callback_wrapper
audio_callback_set_lock ==
    /\ cb_pc = "clock_set"
    /\ clock_mutex = "free"
    /\ clock_mutex' = "callback"
    /\ cb_pc' = "clock_store"
    /\ UNCHANGED <<notAudio, ringVars, buffer_mutex, audio_cache_index,
                   flags_but_time, clockVars, f_pc, feederLocals, cbLocals,
                   p_pc, p_position, seekHist, lockVars, peerVars>>

\* set() stores current_audio_time + time_played and the anchor and
\* releases clock_mutex; the callback returns
audio_callback_set_store ==
    /\ cb_pc = "clock_store"
    /\ clock_set(cb_time + time_played(cb_bytes))
    /\ clock_mutex' = "free"
    /\ cb_bytes' = 0
    /\ cb_time' = 0
    /\ cb_pc' = "idle"
    /\ UNCHANGED <<notAudio, ringVars, buffer_mutex, audio_cache_index,
                   flags_but_time, now, f_pc, feederLocals, p_pc,
                   p_position, seekHist, lockVars, peerVars>>

\* sync_to_position(position): the guard, then
\* std::lock_guard<std::mutex> lock(audio_sync_mutex)
sync_to_position_lock ==
    \E position \in Positions :
        /\ p_pc = "idle"
        /\ sync_calls < MaxSyncCalls
        /\ audio_thread_running
        /\ audio_sync_mutex = "free"
        /\ audio_sync_mutex' = "main"
        /\ p_position' = position
        /\ sync_calls' = sync_calls + 1
        /\ p_pc' = "sync_store"
        /\ UNCHANGED <<notAudio, ringVars, buffer_mutex, audio_cache_index,
                       flags_but_time, clockVars, f_pc, feederLocals, cb_pc,
                       cbLocals, reloc_target, clock_mutex,
                       audio_frame_mutex>>

\* sync_to_position: seek_target and seek_requested are stored, the block
\* ends and releases audio_sync_mutex
sync_to_position_store ==
    /\ p_pc = "sync_store"
    /\ seek_target' = p_position
    /\ seek_requested' = TRUE
    /\ audio_sync_mutex' = "free"
    /\ p_pc' = "sync_clock_lock"
    /\ UNCHANGED <<notAudio, ringVars, buffer_mutex, audio_cache_index,
                   audio_thread_running, audio_should_stop, clockVars, f_pc,
                   feederLocals, cb_pc, cbLocals, p_position, seekHist,
                   clock_mutex, audio_frame_mutex>>

\* set(): std::lock_guard<std::mutex> lock(clock_mutex), called by
\* sync_to_position
sync_to_position_set_lock ==
    /\ p_pc = "sync_clock_lock"
    /\ clock_mutex = "free"
    /\ clock_mutex' = "main"
    /\ p_pc' = "sync_clock_store"
    /\ UNCHANGED <<notAudio, ringVars, buffer_mutex, audio_cache_index,
                   flags_but_time, clockVars, f_pc, feederLocals, cb_pc,
                   cbLocals, p_position, seekHist, lockVars, peerVars>>

\* set() stores position and the anchor and releases clock_mutex;
\* sync_to_position returns
sync_to_position_set_store ==
    /\ p_pc = "sync_clock_store"
    /\ clock_set(p_position)
    /\ clock_mutex' = "free"
    /\ p_position' = 0
    /\ p_pc' = "idle"
    /\ UNCHANGED <<notAudio, ringVars, buffer_mutex, audio_cache_index,
                   flags_but_time, now, f_pc, feederLocals, cb_pc, cbLocals,
                   seekHist, lockVars, peerVars>>

LocksInit ==
    /\ capacity = AUDIO_BUFFER_SIZE
    /\ RingEmpty
    /\ audio_frame_cache = <<[pts |-> 0, size |-> 2], [pts |-> 10, size |-> 2]>>
    /\ AudioManagerInit
    /\ SyncManagerInit
    /\ AuxAtRest

\* the feeder thread
LocksFeeder ==
    \/ audio_thread_func
    \/ handle_audio_seek_load
    \/ handle_audio_seek_clear
    \/ handle_audio_seek_clear_return
    \/ handle_audio_seek_lock
    \/ handle_audio_seek_search
    \/ audio_thread_seek_done
    \/ fill_audio_buffer_begin
    \/ fill_audio_buffer_test
    \/ fill_audio_buffer_lock
    \/ fill_audio_buffer_while
    \/ write_lock
    \/ fill_audio_buffer_copy

\* the audio device thread
LocksCallback ==
    \/ read_lock
    \/ audio_callback_copy
    \/ audio_callback_clock_get
    \/ audio_callback_set_lock
    \/ audio_callback_set_store

\* the presentation thread inside a call
LocksMain ==
    \/ sync_to_position_store
    \/ sync_to_position_set_lock
    \/ sync_to_position_set_store
    \/ stop_audio_thread_join

LocksNext ==
    \/ LocksFeeder
    \/ LocksCallback
    \/ LocksMain
    \/ sync_to_position_lock
    \/ stop_audio_thread

\* the scheduler runs every thread that can take a step, and a thread that
\* waits for a mutex gets it when it is released again and again
LocksSpec ==
    /\ LocksInit
    /\ [][LocksNext]_vars
    /\ WF_vars(LocksFeeder) /\ SF_vars(handle_audio_seek_clear)
    /\ SF_vars(write_lock)
    /\ WF_vars(LocksCallback) /\ SF_vars(read_lock)
    /\ SF_vars(audio_callback_set_lock)
    /\ WF_vars(LocksMain) /\ SF_vars(sync_to_position_set_lock)

(***************************************************************************)
(* SeekSpec: VideoPlayer::seek_to_percentage() called again and again      *)
(* while the feeder runs, the audio callback not running                   *)
(***************************************************************************)
SeekInit ==
    /\ capacity = AUDIO_BUFFER_SIZE
    /\ RingEmpty
    /\ audio_frame_cache \in Caches
    /\ AudioManagerInit
    /\ SyncManagerInit
    /\ AuxAtRest

SeekNext ==
    \/ seek_to_percentage
    \/ sync_audio_to_video_position
    \/ sync_to_position_flag
    \/ sync_to_position_clock
    \/ sync_to_position_return
    \/ audio_thread_func
    \/ handle_audio_seek_load
    \/ handle_audio_seek_clear
    \/ handle_audio_seek_index
    \/ audio_thread_seek_done
    \/ fill_audio_buffer_begin
    \/ fill_audio_buffer_check
    \/ fill_audio_buffer_loop
    \/ fill_audio_buffer_write

SeekSpec == SeekInit /\ [][SeekNext]_vars

(***************************************************************************)
(* Claims on the ring buffer                                               *)
(***************************************************************************)
\* C1: after any sequence of write, read and clear calls on a buffer of
\* capacity C, available_read() + available_write() = C - 1, available_read()
\* lies in 0..C-1 and both cursors lie in 0..C-1.
C1_AvailableSum ==
    /\ available_read(write_pos, read_pos)
         + available_write(write_pos, read_pos) = capacity - 1
    /\ available_read(write_pos, read_pos) \in 0..(capacity - 1)
    /\ write_pos \in 0..(capacity - 1)
    /\ read_pos \in 0..(capacity - 1)

\* a read has just returned bytes and left the filled region wrapped
C1_Witness ==
    /\ last_op.op = "read"
    /\ last_op.ret > 0
    /\ write_pos < read_pos

\* C2: since the last clear(), the bytes returned by read() are a prefix of
\* the bytes accepted by write(): same bytes, same order, also across the
\* wrap at capacity.
C2_Fifo == IsPrefix(returned, accepted)

\* more bytes than the capacity went through the buffer and came out again
C2_Witness ==
    /\ Len(returned) > capacity
    /\ capacity >= 3
    /\ \E i, j \in 1..Len(returned) : returned[i] # returned[j]

(***************************************************************************)
(* Claims on the audio feeder and its seek protocol                        *)
(***************************************************************************)
\* some cached chunk lies at or after t - 0.05 s
HasChunkFrom(t) ==
    \E i \in 1..Len(audio_frame_cache) : audio_frame_cache[i].pts >= t - SEEK_MARGIN

\* the feeder copies a chunk into the ring buffer in this step
CopyStep == f_pc = "fill_write" /\ write_pos' # write_pos

\* the audio callback takes bytes out of the ring buffer in this step
ReadStep == cb_pc = "idle" /\ read_pos' # read_pos /\ f_pc' = f_pc

\* the chunks whose bytes the callback takes in a ReadStep
ReadChunks ==
    {read_copy(buffer, read_pos, read_count(CALLBACK_LEN))[k] :
        k \in 1..read_count(CALLBACK_LEN)}

\* C3: while the feeder loop runs no seek request is lost: once every
\* sync_to_position call has returned and the feeder is back at the top of its
\* loop with no request pending, the last relocation used the position of the
\* last call.
C3_NoSeekLost ==
    (/\ audio_thread_running
     /\ sync_calls > 0
     /\ p_pc = "idle"
     /\ f_pc = "loop"
     /\ ~seek_requested)
    => reloc_target = seek_target

\* C4: servicing sync_to(position) leaves the cache index at the smallest
\* index whose chunk timestamp is >= position - 0.05 s and the ring buffer
\* empty, and sync_to(position) sets the clock to position.
C4_SeekServiced ==
    /\ [](f_pc = "seek_done" =>
            /\ write_pos = 0
            /\ read_pos = 0
            /\ available_read(write_pos, read_pos) = 0
            /\ HasChunkFrom(reloc_target) =>
                 /\ audio_cache_index < Len(audio_frame_cache)
                 /\ audio_frame_cache[audio_cache_index + 1].pts
                        >= reloc_target - SEEK_MARGIN
                 /\ \A j \in 1..audio_cache_index :
                        audio_frame_cache[j].pts < reloc_target - SEEK_MARGIN)
    /\ [][(p_pc = "sync_clock" /\ p_pc' = "sync_ret")
            => clock_get' = p_position]_vars

\* a relocation past the first chunk has been serviced, its sync_to call has
\* returned and the clock stands at the position
C4_Witness ==
    /\ f_pc = "seek_done"
    /\ audio_cache_index > 0
    /\ p_pc = "idle"
    /\ seek_target = reloc_target
    /\ clock_pts = reloc_target
    /\ \E i \in 0..(capacity - 1) : buffer[i] # 0

\* C5 as stated: immediately after sync_to(position) returns to its caller,
\* available_read() is 0.
C5_EmptyOnReturn ==
    p_pc = "sync_ret" => available_read(write_pos, read_pos) = 0

\* C5 as amended: immediately after the feeder loop has serviced the request
\* (handle_audio_seek has returned), available_read() is 0 and no written
\* byte is left unread.
C5_EmptyAfterService ==
    f_pc = "seek_done" =>
        /\ available_read(write_pos, read_pos) = 0
        /\ fill_level = 0

\* a relocation has been serviced while bytes were buffered and unread
C5_Witness ==
    /\ f_pc = "seek_done"
    /\ sync_calls > 0
    /\ p_pc = "idle"
    /\ \E i \in 1..(capacity - 1) : buffer[i] # 0
    /\ cb_pc = "idle"
    /\ clock_pts = seek_target

\* C6 as stated: after sync_to(position) has returned and before the next
\* call (seek_target holds position all that time), every chunk the feeder
\* copies has a timestamp >= position, and every byte the callback reads
\* belongs to such a chunk.
C6_OnlyLaterChunks ==
    [][(sync_calls > 0 /\ p_pc = "idle") =>
        /\ CopyStep =>
             audio_frame_cache[audio_cache_index + 1].pts >= seek_target
        /\ ReadStep =>
             \A t \in ReadChunks : audio_frame_cache[t].pts >= seek_target]_vars

\* C6 as amended: after the feeder has serviced a relocation to a target at or
\* before some chunk's timestamp + 0.05 s, every chunk it copies before the
\* next relocation has a timestamp >= target - 0.05 s, and every byte the
\* callback reads in that time belongs to such a chunk.
C6_OnlyChunksFromTarget ==
    [][(reloc_target # -1 /\ HasChunkFrom(reloc_target)) =>
        /\ CopyStep =>
             audio_frame_cache[audio_cache_index + 1].pts
                 >= reloc_target - SEEK_MARGIN
        /\ ReadStep =>
             \A t \in ReadChunks :
                 audio_frame_cache[t].pts >= reloc_target - SEEK_MARGIN]_vars

\* after a relocation past the first chunk the feeder has copied the rest of
\* the cache and the callback has read from it
C6_Witness ==
    /\ reloc_target # -1
    /\ audio_frame_cache[1].pts < reloc_target - SEEK_MARGIN
    /\ HasChunkFrom(reloc_target)
    /\ audio_cache_index = Len(audio_frame_cache)
    /\ f_pc = "fill_loop"
    /\ cb_pc = "clock_get"

\* C7: every ring-buffer operation is serialized by the buffer's lock, so the
\* value get_buffer_size() returns was the buffer's true fill level at some
\* instant during the call.
C7_TrueFillLevel ==
    p_pc = "gbs_ret" => p_ret \in p_fills

(***************************************************************************)
(* Claims on the network path                                              *)
(***************************************************************************)
\* the step of server_loop() that received a datagram
Received == s_pc = "recv" /\ s_pc' = "done"

\* C8: loop suppression. Receiving a message whose sender id is the
\* SyncManager's own client id invokes no callback (sync, seek, pause,
\* resume, client-connected), whatever its type and however often it is
\* delivered: the record of invoked callbacks stays as it was.
C8_LoopSuppression ==
    [][(Received /\ s_dgram'.msg.sender_id = my_client_id)
         => callback_log' = callback_log]_vars

\* a valid SEEK_CUE of the node's own id has been received and handled after
\* a peer's cue had invoked a callback: the node's own id is in the
\* membership table and the record still holds that one callback only
C8_Witness ==
    /\ s_pc = "done"
    /\ s_dgram.msg.sender_id = my_client_id
    /\ s_dgram.msg.type = SEEK_CUE
    /\ message_callback
    /\ \E i \in 1..Len(connected_clients) :
          /\ connected_clients[i].client_id = my_client_id
          /\ connected_clients[i].last_heartbeat = steady_now
    /\ callback_log = <<"on_pause_cue">>

\* a datagram as the protocol defines a valid one
WellFormed(dgram) ==
    /\ dgram.len = SIZEOF_SyncMessage
    /\ dgram.msg.magic = MAGIC
    /\ validate_checksum(dgram.msg)

\* C9: a received datagram that is not exactly sizeof(SyncMessage) bytes, or
\* whose magic or checksum is wrong, invokes no callback and leaves the
\* membership table as it was, and the receive loop goes on after it: the
\* thread is back at recvfrom() with nothing but the datagram dropped.
C9_InvalidDropped ==
    /\ [][(Received /\ ~WellFormed(s_dgram'))
            => UNCHANGED <<connected_clients, callback_log>>]_vars
    /\ [][(s_pc = "done" /\ s_pc' # "done" /\ ~WellFormed(s_dgram))
            => s_pc' = "recv" /\ UNCHANGED running]_vars

\* no two entries of the membership table have the same client id
NoDuplicateIds ==
    \A i, j \in 1..Len(connected_clients) :
        connected_clients[i].client_id = connected_clients[j].client_id
          => i = j

\* the entry handle_message() leaves for the sender of the received datagram
HandledEntry ==
    ConnectedClient(s_dgram.msg.sender_id, std_string(s_dgram.msg.client_name),
                    s_dgram.from, steady_now)

\* C10: the membership table never holds two entries with the same sender
\* id; a valid message from an unknown id appends exactly one entry, and a
\* valid message of any type from a known id sets that entry's last-seen
\* time, name and IP and leaves the number of entries and every other entry
\* as they were.
C10_OneEntryPerId ==
    /\ []NoDuplicateIds
    /\ [][(Received /\ WellFormed(s_dgram')) =>
            IF \E i \in 1..Len(connected_clients) :
                  connected_clients[i].client_id = s_dgram'.msg.sender_id
            THEN /\ Len(connected_clients') = Len(connected_clients)
                 /\ \A i \in 1..Len(connected_clients) :
                       connected_clients'[i] =
                         IF connected_clients[i].client_id
                              = s_dgram'.msg.sender_id
                         THEN HandledEntry'
                         ELSE connected_clients[i]
            ELSE connected_clients' = Append(connected_clients, HandledEntry')
          ]_vars

\* a HEARTBEAT of a known id has just refreshed the first of two entries:
\* the entry carries the time, name and address of this message and was
\* last seen later than the second entry, which was appended after it
C10_Witness ==
    /\ s_pc = "done"
    /\ WellFormed(s_dgram)
    /\ s_dgram.msg.type = HEARTBEAT
    /\ Len(connected_clients) = 2
    /\ connected_clients[1] = HandledEntry
    /\ connected_clients[1].name = <<66>>
    /\ connected_clients[1].last_heartbeat > connected_clients[2].last_heartbeat
    /\ connected_clients[2].name = <<66>>

(***************************************************************************)
(* Claims on the membership sweep                                          *)
(***************************************************************************)
\* the entries of the table last heard of at most CLIENT_TIMEOUT_SECONDS ago
HeardWithinTimeout ==
    LET recent(client) ==
            steady_now - client.last_heartbeat
              <= CLIENT_TIMEOUT_SECONDS * TICKS_PER_SECOND
    IN  SelectSeq(connected_clients, recent)

\* C11: while the server runs, every sweep removes the members from which no
\* valid message has been received for more than the 30 s timeout, and
\* removes no member whose last message is 30 s old or less.
C11_SweepEvictsStale ==
    [][(h_pc = "run" /\ h_pc' = "sleep")
         => connected_clients' = HeardWithinTimeout]_vars

(***************************************************************************)
(* Claims on the checksum                                                  *)
(***************************************************************************)
\* the record form and the byte form of the checksum agree on what the
\* factories build
FieldSumIsByteSum ==
    \A m \in FactoryMessages :
        checksum_sum(m) = buffer_sum(to_bytes(m))
            /\ validate_checksum(m) = validate_checksum_bytes(to_bytes(m))

\* C12: a message built by a factory passes validate_checksum(), and with
\* the value of one byte outside the checksum field changed it fails
C12_ChecksumDetectsChange ==
    w_result # "none" => (w_result = "true" <=> ~w_changed)

\* a factory message with one byte changed has been validated
C12_Witness == w_changed /\ w_result = "false"

\* a factory message as built has been validated
C12_WitnessIntact == ~w_changed /\ w_result = "true"

(***************************************************************************)
(* Claims on the life cycle of the server                                  *)
(***************************************************************************)
\* no start() or stop() is in progress past the test of the flag, and the
\* flag is clear: stop() has returned, or start() has never succeeded
Stopped == ~running /\ m_pc # "join"

\* C13: once stop() has returned and until a later start(), both threads
\* have terminated, the socket is closed, the membership table is empty
\* and no callback is invoked; start() on a running server and stop() on a
\* stopped server change nothing
C13_StopContract ==
    /\ [](Stopped => /\ s_pc = "none"
                     /\ h_pc = "none"
                     /\ socket_fd = -1
                     /\ connected_clients = <<>>)
    /\ [][Stopped => UNCHANGED <<callback_log, connected_clients>>]_vars
    /\ [][(\/ m_pc = "start" /\ running /\ m_pc' # m_pc
           \/ m_pc = "stop" /\ ~running /\ m_pc' # m_pc)
            => m_pc' = "idle" /\ UNCHANGED <<serverVars, callback_log>>]_vars

\* stop() has returned on a server that had handled a cue and still had a
\* member when stop() was called
C13_Witness ==
    /\ Stopped
    /\ m_pc = "idle"
    /\ callback_log # <<>>
    /\ connected_clients = <<>>

(***************************************************************************)
(* Claims on the termination of the background loops                       *)
(***************************************************************************)
\* the feeder, the receive loop, the sweep and the sender's heartbeat have
\* returned
FeederExited == f_pc = "exited"
ReceiveExited == s_pc \in {"exited", "none"}
SweepExited == h_pc \in {"exited", "none"}
HeartbeatExited == hb_pc \in {"exited", "none"}

\* C14: each loop terminates once its run flag is cleared, and the stop
\* call of its owner returns only after the thread has exited, so no loop
\* takes a step after its owner has been stopped
C14_LoopsTerminate ==
    /\ (~audio_thread_running) ~> FeederExited
    /\ (~running) ~> ReceiveExited
    /\ (~running) ~> SweepExited
    /\ (~heartbeat_running) ~> HeartbeatExited
    /\ []((~audio_thread_running /\ p_pc # "join") => FeederExited)
    /\ []((~heartbeat_running /\ m_pc # "hb_join") => HeartbeatExited)
    /\ []((~running /\ m_pc # "join") => ReceiveExited /\ SweepExited)

\* all four loops have been stopped by their owners, after the sender's
\* loop had broadcast a heartbeat
C14_Witness ==
    /\ ~audio_thread_running /\ p_pc = "idle" /\ FeederExited
    /\ ~heartbeat_running /\ ~running /\ m_pc = "idle"
    /\ HeartbeatExited /\ ReceiveExited /\ SweepExited
    /\ hb_i >= 0

(***************************************************************************)
(* Claims on the send operations                                           *)
(***************************************************************************)
\* a sendto() of the last operation failed or sent fewer bytes
SendtoFailed ==
    \E i \in 1..Len(snd_sent) :
        snd_sent[i] < 0 \/ snd_sent[i] < SIZEOF_SyncMessage

\* C15: an outbound send operation returns false whenever a sendto() it
\* performed failed or sent fewer than sizeof(SyncMessage) bytes
C15_SendFailureReported == SendtoFailed => snd_ret = <<FALSE>>

\* the same for every operation but send_targeted_*()
C15_OthersReport ==
    snd_call.op # "send_targeted" => C15_SendFailureReported

(***************************************************************************)
(* Claims on the heartbeat of the sender                                   *)
(***************************************************************************)
\* the heartbeat thread is about to broadcast a HEARTBEAT
Attempting == hb_pc = "send"

\* C16: while the heartbeat is running, the loop attempts a broadcast when
\* it starts and again after every 10 one-second sleeps, whatever sendto()
\* returned to the one before; only a cleared flag ends the loop
C16_HeartbeatEveryTenSleeps ==
    /\ [](Attempting => hb_i = -1 \/ hb_i = 10)
    /\ [][(hb_pc = "loop" /\ heartbeat_running /\ hb_pc' # hb_pc)
            => Attempting']_vars
    /\ [][(Attempting /\ hb_pc' # hb_pc)
            => hb_pc' = "sleep_test" /\ hb_i' = 0]_vars
    /\ [][(hb_pc # "exited" /\ hb_pc' = "exited") => ~heartbeat_running]_vars
    /\ (hb_sent # <<>>) ~> (Attempting \/ ~heartbeat_running)

\* the heartbeat is still running and, ten sleeps after the attempt before,
\* the loop is about to broadcast again
C16_Witness == heartbeat_running /\ Attempting /\ hb_i = 10

(***************************************************************************)
(* Claims on the dispatch of messages                                      *)
(***************************************************************************)
\* the name a message carries: the bytes of its name field before the
\* first zero
NameOf(msg) == std_string(msg.client_name)

\* the one call that matches a message, <<>> for a type without callback
Matching(msg, sender_ip) ==
    CASE msg.type = SYNC_CUE ->
            <<[callback |-> "on_sync_cue", args |-> <<msg.frame_number>>]>>
      [] msg.type = SEEK_CUE ->
            <<[callback |-> "on_seek_cue", args |-> <<msg.seek_position>>]>>
      [] msg.type = PAUSE_CUE ->
            <<[callback |-> "on_pause_cue", args |-> <<>>]>>
      [] msg.type = RESUME_CUE ->
            <<[callback |-> "on_resume_cue", args |-> <<>>]>>
      [] msg.type = CLIENT_ANNOUNCE ->
            <<[callback |-> "on_client_connected",
               args |-> <<msg.sender_id, NameOf(msg), sender_ip>>]>>
      [] OTHER -> <<>>

\* the matching call when its callback is set
Expected(msg, sender_ip, set) ==
    SelectSeq(Matching(msg, sender_ip), LAMBDA c : c.callback \in set)

\* C17: a valid message of another sender makes exactly the call that
\* matches its type, with its payload, when that callback is set; HEARTBEAT
\* and CLIENT_DISCOVER, and a callback that is not set, make none
C17_OneMatchingCallback ==
    (d_last.handled /\ d_last.msg.sender_id # my_client_id)
        => d_last.calls = Expected(d_last.msg, d_last.sender_ip, d_last.set)

\* the same for the messages whose name ends within the name field
C17_TerminatedNames ==
    (d_last.handled /\ Len(NameOf(d_last.msg)) < 32)
        => (d_last.calls =
              IF d_last.msg.sender_id = my_client_id THEN <<>>
              ELSE Expected(d_last.msg, d_last.sender_ip, d_last.set))

(***************************************************************************)
(* Claims on seeking                                                       *)
(***************************************************************************)
\* C18: a seek applied a second time with the same position, once the
\* feeder has serviced it, leaves the frame index, the video clock, the
\* seek target, the cache index and the audio clock as the first one had
\* left them
C18_SeekIdempotent == (Quiescent /\ once # NoSnapshot) => Snapshot = once

\* the same seek has been applied twice and serviced twice, and the second
\* relocation took the cache index back from where the top-up after the
\* first had left it
C18_Witness ==
    /\ Quiescent
    /\ once # NoSnapshot
    /\ sync_calls = 2
    /\ once.cache_index > seek_index(audio_frame_cache, seek_target)

(***************************************************************************)
(* Claims on the audio clock                                               *)
(***************************************************************************)
\* the audio callback stores the clock for the bytes it has read
CallbackSetsClock == cb_pc = "clock_set" /\ cb_pc' = "idle"

\* C19: in steady playback, once the callback has stored the clock, the
\* reading of the clock advances by the playback time of the bytes the
\* callback consumed, in the step in which the callback accounts for them,
\* and by nothing else
C19_ConsumptionDriven ==
    [][clock_pts > 0 =>
         clock_get' = clock_get + (IF CallbackSetsClock
                                   THEN time_played(cb_bytes) ELSE 0)]_vars

\* between the callback's reading of the clock and its store, no step but
\* the passing of wall-clock time changes the reading
C19_OnlyTimeAndCallback ==
    [][(now' = now /\ ~CallbackSetsClock) => clock_get' = clock_get]_vars

\* the pairs that the calls of set() under way store if they end now
StoredNext ==
    {<<set_timestamp[t], now>> : t \in {u \in Setters : set_pc[u] = "anchor"}}

\* C20: set() is atomic for a concurrent get(): when get() computes its
\* value, the timestamp and the anchor it computes from are a pair that the
\* constructor or one call of set() stored together, or that the call of
\* set() under way is storing, never the timestamp of one call with the
\* anchor of another
C20_SetAtomicForGet ==
    [][(get_pc = "pts" /\ get_pc' = "done") =>
          <<get_pts', get_base'>> \in stored \cup StoredNext]_vars

\* the two calls of set() never overlap each other: clock_mutex orders them
C20_SettersExclude ==
    \A t \in Setters : set_pc[t] # "idle" => clock_mutex = t

\* get() uses no timestamp and no anchor but stored ones, or the timestamp
\* of the call of set() that is under way
C20_NothingInvented ==
    get_pc = "done" =>
        /\ \E pair \in stored : get_base = pair[2]
        /\ \/ \E pair \in stored : get_pts = pair[1]
           \/ \E t \in Setters : set_pc[t] = "anchor"
                                  /\ get_pts = set_timestamp[t]

\* get() was called after a call of set() had returned, and no call of
\* set() has been made since
GetFollowsSet ==
    /\ get_after # <<>>
    /\ get_after = last_set
    /\ \A t \in Setters : set_pc[t] = "idle"

\* C21: get() called after set(t), with no call of set() in between,
\* returns t plus the wall-clock time that passed between that set() and
\* the call of get(): t when none has passed, t + D after D time units
C21_GetExtrapolates ==
    [][(get_pc = "pts" /\ get_pc' = "done" /\ GetFollowsSet) =>
          get_result' = get_after[1] + (get_now - get_after[2])]_vars

\* set(5) returned, a time unit passed, get() returned 6
C21_Witness ==
    /\ get_pc = "done"
    /\ GetFollowsSet
    /\ get_after[1] = 5
    /\ get_now = get_after[2] + 1
    /\ get_result = 6

\* set(9) returned and get() was called at once: it returned 9
C21_WitnessAtOnce ==
    /\ get_pc = "done"
    /\ GetFollowsSet
    /\ get_after = <<9, 1>>
    /\ get_now = 1
    /\ get_result = 9

(***************************************************************************)
(* Further claims on the ring buffer                                       *)
(***************************************************************************)
\* the call that a step of RingSpec makes: each records itself in last_op
Called(op) == last_op'.op = op

\* C22: write(data, n) returns min(n, available_write()) as it stood at the
\* call, accepts that many bytes and moves only the write cursor, by that
\* many; read(buf, n) returns min(n, available_read()), hands out that many
\* bytes and moves only the read cursor; the value is a count, never an
\* error, and a call of 0 bytes moves no cursor
C22_ShortCounts ==
    [][/\ Called("write") =>
            LET n == last_op'.arg
                k == Min(n, available_write(write_pos, read_pos))
            IN  /\ last_op'.ret = k
                /\ Len(accepted') = Len(accepted) + k
                /\ write_pos' = (write_pos + k) % capacity
                /\ read_pos' = read_pos
                /\ n = 0 => write_pos' = write_pos
       /\ Called("read") =>
            LET n == last_op'.arg
                k == Min(n, available_read(write_pos, read_pos))
            IN  /\ last_op'.ret = k
                /\ Len(returned') = Len(returned) + k
                /\ read_pos' = (read_pos + k) % capacity
                /\ write_pos' = write_pos
                /\ n = 0 => read_pos' = read_pos]_vars

\* a write of 3 bytes found room for 1 or 2 and returned that count
C22_Witness ==
    /\ last_op.op = "write"
    /\ last_op.arg = 3
    /\ last_op.ret \in 1..2
    /\ last_op.ret = last_op.avail

\* a read of more bytes than were buffered returned what there was
C22_WitnessRead ==
    /\ last_op.op = "read"
    /\ last_op.ret \in 1..2
    /\ last_op.arg > last_op.ret

\* no write() has accepted a byte since the last clear()
NothingSinceClear == accepted = <<>>

\* C23: after clear(), a read() returns 0 bytes as long as no write() has
\* accepted a byte since, however many bytes were buffered before
C23_EmptyAfterClear ==
    (last_op.op = "read" /\ NothingSinceClear) =>
        (last_op.ret = 0 /\ returned = <<>>)

\* clear() was called with 2 bytes or more buffered, and a read() asking
\* for bytes got none
C23_Witness ==
    /\ last_op.op = "read"
    /\ last_op.arg > 0
    /\ last_op.ret = 0
    /\ NothingSinceClear
    /\ last_op.cleared >= 2

\* C24: over any sequence of write and read calls on a buffer of capacity
\* C, the number of bytes that read has returned never exceeds the number
\* of bytes that write has accepted
C24_ReadWithinWritten == Len(returned) <= Len(accepted)

\* more bytes than the capacity went through, all of them have been read,
\* and the last read asked for more than it got
C24_Witness ==
    /\ Len(returned) = Len(accepted)
    /\ Len(returned) > capacity
    /\ last_op.op = "read"
    /\ last_op.arg > last_op.ret

(***************************************************************************)
(* Claims on the VideoManager                                              *)
(***************************************************************************)
\* the cache is loaded and holds a frame
Loaded == cache_loaded /\ Len(video_cache) >= 1

\* C25: with a loaded cache of N >= 1 frames, seek_to_percentage(p) sets
\* the current frame to the linear image of p, clamped to [0, 100], on
\* [0, N-1], to within one frame (149 for N = 300 and p = 50); the
\* current frame is within [0, N-1] after any sequence of
\* seek_to_percentage and set_current_frame calls; a seek before the cache
\* is loaded or on an empty cache changes neither the frame nor the clock
C25_SeekLinear ==
    /\ [](Loaded /\ video_op.op = "seek" =>
            LET image == clamp(video_op.arg) * (Len(video_cache) - 1)
            IN  /\ image - 100 * current_frame \in -100..100
                /\ video_clock = video_cache[current_frame + 1])
    /\ [](Len(video_cache) >= 1 =>
            current_frame \in 0..(Len(video_cache) - 1))
    /\ [](target_frame(50, 299) \in 149..151)
    /\ [][(video_op'.op = "seek" /\ ~Loaded) =>
            (current_frame' = current_frame /\ video_clock' = video_clock)]_vars

\* a seek to 150 percent on a loaded cache of 3 frames, from frame 0,
\* selected the last frame
C25_Witness ==
    /\ Loaded
    /\ Len(video_cache) = 3
    /\ video_op = [op |-> "seek", arg |-> 150]
    /\ current_frame = 2
    /\ video_clock = frame_pts(2)

\* a seek was made before the cache was loaded, with frames cached already
C25_WitnessNotLoaded ==
    /\ ~cache_loaded
    /\ Len(video_cache) >= 2
    /\ video_op.op = "seek"
    /\ video_op.arg = 100
    /\ current_frame = 1

\* the state of the AudioManager, its ring buffer and its clock
AudioState ==
    <<ringVars, buffer_mutex, audio_frame_cache, audio_cache_index, flags,
      clock_pts, clock_base, f_pc, feederLocals, cb_pc, cbLocals>>

\* the step of VideoManager::seek_to_percentage() within an orchestrator seek
VideoSeekStep == p_pc = "idle" /\ p_pc' = "video_seeked"

FailsValidation(op) ==
    /\ config_op'.op = op
    /\ ~validate_config(parse_lines(DefaultConfig, config_op'.file))

\* C27: when a configuration file fails validation, load_config() returns
\* false and network_config keeps its values, and create_with_config()
\* gives a SyncManager whose port, name and network_config are not those
\* of the file
C27_InvalidRefused ==
    /\ [][FailsValidation("load_config") =>
            (config_op'.ret = FALSE /\ network_config' = network_config
             /\ manager' = manager)]_vars
    /\ [][FailsValidation("create_with_config") =>
            LET parsed == parse_lines(DefaultConfig, config_op'.file)
            IN  /\ manager'.port # parsed.listen_port
                /\ manager'.name # parsed.client_name
                /\ network_config' # parsed]_vars

\* load_config() alone refuses a file that fails validation
C27_LoadConfigRefuses ==
    [][FailsValidation("load_config") =>
         (config_op'.ret = FALSE /\ network_config' = network_config
          /\ manager' = manager)]_vars

\* a port number as written in a file lies outside 1024..65535
OutOfRange(port) == port < 1024 \/ port > 65535

\* the file gives listen_port or a target port outside 1024..65535, or a
\* client_timeout below twice the heartbeat_interval
WrittenInvalid(file) ==
    \/ OutOfRange(file.listen_port)
    \/ \E i \in 1..Len(file.targets) : OutOfRange(file.targets[i].port)
    \/ file.timing[2] < 2 * file.timing[1]

\* load_from_file() has been called, by load_config() or by the parser
\* that create_with_config() constructs
Loaded_from_file == config_op.op \in {"load_config", "create_with_config"}

\* C28: a file whose listen_port or any target port is written as an
\* integer outside 1024..65535, values above 65535 included, or whose
\* client_timeout is below twice the heartbeat_interval, makes
\* load_from_file() return false
C28_OutOfRangeRejected ==
    (Loaded_from_file /\ WrittenInvalid(config_op.file)) =>
        config_op.ret = FALSE

\* the same for the ports that fit uint16_t: a port written below 1024,
\* or a timeout below twice the interval, makes load_from_file() return
\* false
C28_BelowRangeRejected ==
    (/\ Loaded_from_file
     /\ \/ config_op.file.listen_port < 1024
        \/ \E i \in 1..Len(config_op.file.targets) :
              config_op.file.targets[i].port < 1024
        \/ config_op.file.timing[2] < 2 * config_op.file.timing[1])
    => config_op.ret = FALSE

(***************************************************************************)
(* Claims on the feeder loop                                               *)
(***************************************************************************)
\* the chunk at the cache index lies beyond the reference time that this
\* top-up has read, plus the sync threshold
BeyondThreshold ==
    /\ audio_cache_index < Len(audio_frame_cache)
    /\ audio_frame_cache[audio_cache_index + 1].pts
          > f_video_time + AUDIO_SYNC_THRESHOLD

\* C29: the feeder copies a cached chunk into the ring buffer only if the
\* chunk's timestamp does not exceed the reference (video) time read by
\* this top-up plus the sync threshold; a chunk beyond the threshold stops
\* the top-up, leaving the cache index and the ring buffer as they are, so
\* that a later iteration tries the same chunk
C29_ThresholdGate ==
    /\ [][(f_pc = "fill_write" /\ f_pc' # f_pc) => ~BeyondThreshold]_vars
    /\ [][(f_pc = "fill_loop" /\ f_pc' # f_pc /\ BeyondThreshold) =>
            /\ f_pc' = "loop"
            /\ audio_cache_index' = audio_cache_index
            /\ ringVars' = ringVars]_vars

\* the first chunk was copied, the top-up stopped at the second, which
\* lies beyond the threshold, although the buffer has room for bytes
C29_Witness ==
    /\ f_pc = "loop"
    /\ audio_cache_index = 1
    /\ Len(audio_frame_cache) = 2
    /\ audio_frame_cache[2].pts > current_video_time + AUDIO_SYNC_THRESHOLD
    /\ available_write(write_pos, read_pos) > FILL_ROOM
    /\ fill_level > 0

\* the chunk that had been beyond the threshold was copied once the
\* reference time had reached it
C29_WitnessRetried ==
    /\ audio_cache_index = 2
    /\ audio_frame_cache[1].pts = 0
    /\ audio_frame_cache[2].pts = 10
    /\ current_video_time = 10
    /\ reloc_target = -1

(***************************************************************************)
(* Claims on the feeder loop                                               *)
(***************************************************************************)
\* the feeder leaves the step named pc
FeederLeaves(pc) == f_pc = pc /\ f_pc' # f_pc

\* C30: in each feeder-loop iteration the loop does exactly one of two
\* things: with a relocation pending it performs the relocation and clears
\* the pending flag, otherwise it tops up the ring buffer; an iteration
\* that performed a relocation ends without a top-up
C30_RelocateOrTopUp ==
    /\ [][(FeederLeaves("loop") /\ f_pc' # "exited") =>
            f_pc' = IF seek_requested THEN "seek_load" ELSE "fill_begin"]_vars
    /\ [][FeederLeaves("seek_done") =>
            (~seek_requested' /\ f_pc' = "loop")]_vars

\* what audio_thread_func does: the relocation clears the pending flag and
\* the same iteration goes on to fill_audio_buffer()
C30_RelocateThenTopUp ==
    [][FeederLeaves("seek_done") =>
          (~seek_requested' /\ f_pc' = "fill_begin")]_vars

\* bytes are copied into the ring buffer in an iteration that relocated:
\* the pending flag is down, the buffer was cleared, and the feeder is about
\* to copy the chunk the relocation chose
C30_ToppedUpAfterRelocation ==
    /\ f_pc = "fill_write"
    /\ reloc_target >= 0
    /\ ~seek_requested
    /\ fill_level = 0
    /\ audio_cache_index = seek_index(audio_frame_cache, reloc_target)

\* C31: the feeder copies a chunk into the ring buffer only while the
\* buffer is below 25% full: at every chunk copy, available_read() just
\* before the copy is less than one quarter of the capacity
C31_CopyBelowQuarter ==
    [][FeederLeaves("fill_write") =>
          4 * available_read(write_pos, read_pos) < capacity]_vars

\* what fill_audio_buffer does: the fill level is tested once, before the
\* loop, and a top-up is entered with at most a quarter of the capacity
\* buffered
C31_TopUpEnteredAtMostQuarter ==
    [][(FeederLeaves("fill_check") /\ f_pc' = "fill_loop") =>
          available_read(write_pos, read_pos) <= MIN_BUFFER_SIZE]_vars

\* the feeder is about to copy the second chunk of one top-up into a buffer
\* that is half full
C31_CopyAboveQuarter ==
    /\ f_pc = "fill_write"
    /\ audio_cache_index = 1
    /\ 4 * available_read(write_pos, read_pos) > capacity
    /\ cb_pc = "idle" /\ returned = <<>>

\* the bytes of the chunk at the cache index that write() takes now
WrittenNow == write_count(chunk_data(audio_cache_index))

\* C32: every chunk the feeder advances its cache index past has been
\* copied into the ring buffer in its entirety, whatever the chunk size and
\* the fill level: no chunk is written partially and then skipped
C32_WholeChunks ==
    [][(FeederLeaves("fill_write") /\ audio_cache_index' # audio_cache_index)
          => WrittenNow = audio_frame_cache[audio_cache_index + 1].size]_vars

\* what fill_audio_buffer does: the index advances by one exactly when
\* write() took at least one byte
C32_AdvanceOnAnyByte ==
    [][FeederLeaves("fill_write") =>
          audio_cache_index' =
              IF WrittenNow > 0 THEN audio_cache_index + 1
              ELSE audio_cache_index]_vars

\* both chunks are behind the cache index, nothing was read, and the ring
\* buffer holds fewer bytes than the two chunks have
C32_ChunkCutShort ==
    /\ audio_cache_index = 2
    /\ reloc_target = -1
    /\ returned = <<>> /\ cb_pc = "idle" /\ read_pos = 0
    /\ available_read(write_pos, read_pos)
          < audio_frame_cache[1].size + audio_frame_cache[2].size

(***************************************************************************)
(* Claims on the clock during a seek                                       *)
(***************************************************************************)
\* sync_to_position() has returned at least once and the presentation thread
\* is in no call; seek_target holds the position of the last call
SyncReturned == sync_calls > 0 /\ p_pc = "idle"

\* C33: a clock re-anchor made by sync_to_position(position) is never lost
\* to a concurrent audio-callback clock update: once the call has returned,
\* every clock reading is derived from position (position plus what elapsed
\* and was consumed after the call), so none lies below position
C33_ReanchorKept == SyncReturned => clock_get >= seek_target

\* what holds: the store of sync_to_position() itself takes effect, the
\* reading right after it is position
C33_ReanchorStored ==
    [][(p_pc = "sync_clock" /\ p_pc' = "sync_ret") =>
          clock_get' = p_position]_vars

\* the callback has stored the timestamp it had read before the re-anchor,
\* plus the time of the bytes it consumed: the first seek, to position 14,
\* has returned, the callback is done, and the clock reads CALLBACK_LEN
C33_ReanchorLost ==
    /\ SyncReturned
    /\ sync_calls = 1
    /\ seek_target = 14
    /\ cb_pc = "idle"
    /\ clock_get = time_played(CALLBACK_LEN)

(***************************************************************************)
(* Claims on pause and mute                                                *)
(***************************************************************************)
\* C34: whenever the player is paused (is_paused is true) the audio output
\* device is paused, after any sequence of Space and M key presses during
\* playback
C34_PausedDevicePaused == is_paused => device_paused

\* what holds: a muted player has its device paused, and a device that
\* runs belongs to a player that is not muted
C34_MutedDevicePaused == audio_muted => device_paused

\* Space, M, M: the player is paused and not muted, and the device runs
C34_PausedDeviceRuns ==
    /\ keys = <<"space", "m", "m">>
    /\ is_paused /\ ~audio_muted /\ ~device_paused

(***************************************************************************)
(* Claims on the mutexes of the audio path                                 *)
(***************************************************************************)
Threads == {"feeder", "callback", "main"}

\* the holder of a mutex
Holder(mutex) ==
    CASE mutex = "audio_frame_mutex" -> audio_frame_mutex
      [] mutex = "buffer_mutex" -> buffer_mutex
      [] mutex = "clock_mutex" -> clock_mutex
      [] mutex = "audio_sync_mutex" -> audio_sync_mutex

\* the mutex that a thread is about to lock, "none" when its next step is
\* no lock
Wanted(t) ==
    CASE t = "feeder" ->
            IF f_pc \in {"seek_clear", "write_lock"} THEN "buffer_mutex"
            ELSE IF f_pc \in {"seek_lock", "fill_lock"}
                 THEN "audio_frame_mutex" ELSE "none"
      [] t = "callback" ->
            IF cb_pc = "idle" THEN "buffer_mutex"
            ELSE IF cb_pc = "clock_set" THEN "clock_mutex" ELSE "none"
      [] t = "main" ->
            IF p_pc = "sync_clock_lock" THEN "clock_mutex" ELSE "none"

\* a thread cannot take its next step: the mutex it wants is held, or it
\* is in join() and the feeder has not returned
Blocked(t) ==
    \/ Wanted(t) # "none" /\ Holder(Wanted(t)) # "free"
    \/ t = "main" /\ p_pc = "join" /\ f_pc # "exited"

\* the thread that a blocked thread waits for
BlockedBy(t) ==
    IF Wanted(t) # "none" THEN Holder(Wanted(t)) ELSE "feeder"

\* with three threads, a blocked thread is in a deadlock exactly when the
\* two threads next in its chain of waits are blocked as well
Deadlocked(t) ==
    /\ Blocked(t)
    /\ Blocked(BlockedBy(t))
    /\ Blocked(BlockedBy(BlockedBy(t)))

\* a thread is about to lock a mutex, or is in join()
Waiting(t) == Wanted(t) # "none" \/ (t = "main" /\ p_pc = "join")

\* C35: the feeder thread, the audio callback and the presentation thread
\* never deadlock: under every interleaving of fill_audio_buffer,
\* handle_audio_seek, the callback's read and clock update,
\* sync_to_position and stop_audio_thread no thread waits in a cycle of
\* waits, and no thread stays for ever about to lock a mutex or in join():
\* each of its acquisitions succeeds
C35_NoDeadlock ==
    /\ [](\A t \in Threads : ~Deadlocked(t))
    /\ \A t \in Threads : []<>~Waiting(t)

\* the feeder, holding audio_frame_mutex, waits for buffer_mutex, which the
\* callback holds, while the presentation thread holds clock_mutex
C35_Witness ==
    /\ f_pc = "write_lock" /\ audio_frame_mutex = "feeder"
    /\ buffer_mutex = "callback"
    /\ clock_mutex = "main"

\* the presentation thread is in join() while the feeder waits for
\* buffer_mutex
C35_WitnessJoin ==
    /\ p_pc = "join"
    /\ Blocked("feeder")

LoopAlive == s_pc \notin {"none", "exited"}

\* C37: whenever UDPSyncServer::is_running() is true the receive loop is
\* alive, so that after start() has succeeded and until stop() is called
\* every valid datagram that arrives is handled, also after a receive call
\* has failed with an error other than would-block
C37_RunningLoopAlive == running => LoopAlive

\* what holds: while is_running() is true the receive loop ends through
\* the break after a failed recvfrom() only, and the sweep thread lives on
C37_EndsByErrorOnly ==
    /\ [][(running /\ running' /\ LoopAlive /\ ~LoopAlive') =>
            s_pc = "recv"]_vars
    /\ [](running => h_pc \notin {"none", "exited"})

\* is_running() is true, no call of start() or stop() is under way, and
\* server_loop() has returned
C37_RunningLoopDead ==
    /\ running
    /\ m_pc = "idle"
    /\ s_pc = "exited"
    /\ socket_fd # -1

(***************************************************************************)
(* EvictSpec: a running server and the UDPSyncSender of a peer, whose      *)
(* heartbeat_loop() sends a HEARTBEAT and sleeps ten times one second, on  *)
(* a clock of half seconds; a HEARTBEAT reaches the receive loop at once   *)
(* or not at all                                                           *)
(***************************************************************************)
\* the peer is in the membership table
PeerListed ==
    \E i \in 1..Len(connected_clients) :
        connected_clients[i].client_id \in PeerIds

\* the HEARTBEAT just sent is on the wire: sendto() took all its bytes
InFlight == hb_sent # <<>> /\ send_to_sockaddr(hb_sent[1])

\* server_loop() has handled the HEARTBEAT just sent
Handled ==
    /\ hb_sent # <<>>
    /\ \E i \in 1..Len(connected_clients) :
          /\ connected_clients[i].client_id \in PeerIds
          /\ connected_clients[i].last_heartbeat = steady_now

\* recvfrom() returns the HEARTBEAT that the peer has just sent
server_loop_recv_peer ==
    /\ InFlight
    /\ ~Handled
    /\ server_loop_iteration(PeerHeartbeats)

\* heartbeat_loop() of the peer: i < HEARTBEAT_INTERVAL_SECONDS &&
\* heartbeat_running.load(); the HEARTBEAT that was not handled by now is
\* lost
peer_heartbeat_sleep_test ==
    /\ hb_pc = "sleep_test"
    /\ hb_pc' = IF hb_i < HEARTBEAT_INTERVAL_SECONDS /\ heartbeat_running
                THEN "sleeping" ELSE "loop"
    /\ hb_sent' = <<>>
    /\ hb_lost' = IF hb_sent = <<>> THEN hb_lost
                  ELSE IF Handled THEN 0
                  ELSE hb_lost + 1
    /\ UNCHANGED <<ringVars, ringHist, audioVars, netVars, wireVars, sendVars,
                   dispatchVars, videoVars, accessVars, configVars, keyVars,
                   lockVars, heartbeat_running, sender_fd, hb_i>>

\* sleep_for(seconds(1)) of the peer: half a second passes; ++i when the
\* second is over
peer_heartbeat_sleep ==
    /\ hb_pc = "sleeping"
    /\ steady_now < MaxSweepSeconds * TICKS_PER_SECOND
    /\ steady_now' = steady_now + 1
    /\ IF steady_now' % TICKS_PER_SECOND = 0
       THEN hb_i' = hb_i + 1 /\ hb_pc' = "sleep_test"
       ELSE UNCHANGED <<hb_i, hb_pc>>
    /\ UNCHANGED <<ringVars, ringHist, audioVars, enabled, m_pc, serverVars,
                   callback_log, wireVars, sendVars, dispatchVars, videoVars,
                   accessVars, configVars, keyVars, lockVars, peerVars,
                   heartbeat_running, sender_fd, hb_sent>>

EvictInit ==
    /\ capacity = AUDIO_BUFFER_SIZE
    /\ RingEmpty
    /\ AudioAtRest
    /\ SyncManagerStarted
    /\ WireAtRest
    /\ SendAtRest
    /\ DispatchAtRest
    /\ VideoAtRest /\ AccessAtRest /\ ConfigAtRest /\ KeysAtRest
    /\ LocksAtRest /\ PeerAtRest
    /\ SenderStarted

EvictNext ==
    \/ sender_heartbeat_loop
    \/ sender_heartbeat_send
    \/ peer_heartbeat_sleep_test
    \/ peer_heartbeat_sleep
    \/ server_loop_recv_peer
    \/ server_loop_next
    \/ server_loop_error
    \/ heartbeat_loop_cleanup
    \/ heartbeat_loop_sleep

EvictSpec == EvictInit /\ [][EvictNext]_vars

\* C38: a peer whose heartbeat loop runs, one HEARTBEAT per ten seconds, is
\* erased from the membership table of a running server only when at least
\* three HEARTBEATs in a row were lost, so a peer whose HEARTBEATs are all
\* handled by the receive loop is never erased
C38_EvictionNeedsThreeLost ==
    [][(running /\ heartbeat_running /\ PeerListed /\ ~PeerListed') =>
          hb_lost >= 3]_vars

\* the peer was listed, lost three HEARTBEATs in a row and has been erased
\* by the sweep, 31 seconds after the last HEARTBEAT that was handled
C38_EvictedAfterThreeLost ==
    /\ running
    /\ heartbeat_running
    /\ ~PeerListed
    /\ hb_lost = 3
    /\ h_pc = "sleep"
    /\ steady_now >= (CLIENT_TIMEOUT_SECONDS + 1) * TICKS_PER_SECOND

(***************************************************************************)
(* Claims on the cache index of the feeder                                 *)
(***************************************************************************)
\* the feeder services a relocation in this step: clear(), then the search
Relocating == f_pc \in {"seek_clear", "seek_index"}

\* C39: audio_cache_index stays within 0..audio_frame_cache.size(); apart
\* from a relocation it changes only by one, in the step that copies the
\* chunk at the index, so that between two relocations the chunks go into
\* the ring buffer in increasing index order and each at most once; and
\* while the index equals the size of the cache nothing is written to the
\* ring buffer until a relocation is serviced
C39_IndexInOrder ==
    /\ [](audio_cache_index \in 0..Len(audio_frame_cache))
    /\ [][CopyStep =>
            /\ audio_cache_index < Len(audio_frame_cache)
            /\ buffer'[write_pos] = audio_cache_index + 1
            /\ audio_cache_index' = audio_cache_index + 1]_vars
    /\ [][(audio_cache_index' # audio_cache_index /\ ~Relocating) =>
            CopyStep]_vars
    /\ [][(/\ audio_cache_index = Len(audio_frame_cache)
           /\ <<buffer, write_pos>>' # <<buffer, write_pos>>) =>
            Relocating]_vars

\* every chunk of the cache has been copied after a relocation, the last
\* one just now, and the feeder is back at its loop with nothing to copy
C39_AllCopied ==
    /\ audio_cache_index = Len(audio_frame_cache)
    /\ sync_calls > 0
    /\ reloc_target > 0
    /\ buffer[(write_pos + capacity - 1) % capacity] = Len(audio_frame_cache)
    /\ f_pc = "loop"

(***************************************************************************)
(* ManagerSpec: initialize(), shutdown() and set_enabled() called on one   *)
(* SyncManager in any order by the thread that owns it, with the two       *)
(* threads of its server and the heartbeat thread of its sender            *)
(***************************************************************************)
\* what no call on the SyncManager touches
notManager == <<ringVars, ringHist, audioVars, connected_clients, s_dgram,
                steady_now, callback_log, wireVars, sendVars, dispatchVars,
                videoVars, accessVars, configVars, keyVars, lockVars,
                peerVars>>

\* calls made on the SyncManager; set_enabled with its argument
ManagerCalls == {"initialize", "shutdown", "set_enabled_true",
                 "set_enabled_false"}

\* the owner calls one of the three operations
manager_call ==
    /\ m_pc = "idle"
    /\ m_pc' \in ManagerCalls
    /\ UNCHANGED <<notManager, enabled, running, socket_fd, message_callback,
                   s_pc, h_pc, senderVars>>

\* an initialize() that returns false when the sender fails and leaves the
\* server as it is
initialize_body_mut ==
    IF enabled
    THEN /\ m_pc' = "idle"
         /\ UNCHANGED <<enabled, running, socket_fd, message_callback, s_pc,
                        h_pc, senderVars>>
    ELSE /\ message_callback' = TRUE
         /\ \E socket_ok \in BOOLEAN, sender_ok \in BOOLEAN :
              IF ~running /\ ~socket_ok
              THEN /\ socket_fd' = -1
                   /\ m_pc' = "idle"
                   /\ UNCHANGED <<enabled, running, s_pc, h_pc, senderVars>>
              ELSE /\ IF running
                      THEN UNCHANGED <<running, socket_fd, s_pc, h_pc>>
                      ELSE /\ socket_fd' = 3
                           /\ running' = TRUE
                           /\ s_pc' = "recv"
                           /\ h_pc' = "run"
                   /\ IF ~sender_ok
                      THEN /\ sender_fd' = -1
                           /\ m_pc' = "idle"
                           /\ UNCHANGED <<enabled, heartbeat_running, hb_pc,
                                          hb_i, hb_sent>>
                      ELSE /\ sender_fd' = 4
                           /\ IF heartbeat_running
                              THEN UNCHANGED <<heartbeat_running, hb_pc, hb_i,
                                               hb_sent>>
                              ELSE /\ heartbeat_running' = TRUE
                                   /\ hb_pc' = "loop"
                                   /\ hb_i' = -1
                                   /\ hb_sent' = <<>>
                           /\ enabled' = TRUE
                           /\ m_pc' = "idle"

\* the body of SyncManager::initialize(): nothing when enabled; the
\* callback, server->start(), sender->initialize() (whose announcement goes
\* out unchecked), start_heartbeat(), enabled = true; server->stop() is
\* still to run when the sender failed
initialize_body ==
    IF enabled
    THEN /\ m_pc' = "idle"
         /\ UNCHANGED <<enabled, running, socket_fd, message_callback, s_pc,
                        h_pc, senderVars>>
    ELSE /\ message_callback' = TRUE
         /\ \E socket_ok \in BOOLEAN, sender_ok \in BOOLEAN :
              IF ~running /\ ~socket_ok
              THEN /\ socket_fd' = -1
                   /\ m_pc' = "idle"
                   /\ UNCHANGED <<enabled, running, s_pc, h_pc, senderVars>>
              ELSE /\ IF running
                      THEN UNCHANGED <<running, socket_fd, s_pc, h_pc>>
                      ELSE /\ socket_fd' = 3
                           /\ running' = TRUE
                           /\ s_pc' = "recv"
                           /\ h_pc' = "run"
                   /\ IF ~sender_ok
                      THEN /\ sender_fd' = -1
                           /\ m_pc' = "stop"
                           /\ UNCHANGED <<enabled, heartbeat_running, hb_pc,
                                          hb_i, hb_sent>>
                      ELSE /\ sender_fd' = 4
                           /\ IF heartbeat_running
                              THEN UNCHANGED <<heartbeat_running, hb_pc, hb_i,
                                               hb_sent>>
                              ELSE /\ heartbeat_running' = TRUE
                                   /\ hb_pc' = "loop"
                                   /\ hb_i' = -1
                                   /\ hb_sent' = <<>>
                           /\ enabled' = TRUE
                           /\ m_pc' = "idle"

\* the body of SyncManager::shutdown(): nothing when not enabled; enabled =
\* false, then sender->shutdown() up to the join of stop_heartbeat();
\* cleanup_socket() and server->stop() are still to run
shutdown_body ==
    IF ~enabled
    THEN /\ m_pc' = "idle"
         /\ UNCHANGED <<enabled, running, socket_fd, message_callback, s_pc,
                        h_pc, senderVars>>
    ELSE /\ enabled' = FALSE
         /\ IF heartbeat_running
            THEN /\ heartbeat_running' = FALSE
                 /\ m_pc' = "hb_join"
                 /\ UNCHANGED sender_fd
            ELSE /\ sender_fd' = -1
                 /\ m_pc' = "stop"
                 /\ UNCHANGED heartbeat_running
         /\ UNCHANGED <<running, socket_fd, message_callback, s_pc, h_pc,
                        hb_pc, hb_i, hb_sent>>

SyncManager_initialize ==
    /\ m_pc = "initialize"
    /\ initialize_body
    /\ UNCHANGED notManager

SyncManager_shutdown ==
    /\ m_pc = "shutdown"
    /\ shutdown_body
    /\ UNCHANGED notManager

\* set_enabled(enable): initialize() when enable && !enabled, shutdown()
\* when !enable && enabled, nothing otherwise
set_enabled ==
    /\ m_pc \in {"set_enabled_true", "set_enabled_false"}
    /\ LET enable == (m_pc = "set_enabled_true")
       IN  IF enable /\ ~enabled THEN initialize_body
           ELSE IF ~enable /\ enabled THEN shutdown_body
           ELSE /\ m_pc' = "idle"
                /\ UNCHANGED <<enabled, running, socket_fd, message_callback,
                               s_pc, h_pc, senderVars>>
    /\ UNCHANGED notManager

ManagerInit ==
    /\ capacity = AUDIO_BUFFER_SIZE
    /\ RingEmpty
    /\ AudioAtRest
    /\ SyncManagerInit
    /\ AuxAtRest

ManagerNext ==
    \/ manager_call
    \/ SyncManager_initialize
    \/ SyncManager_shutdown
    \/ set_enabled
    \/ stop_heartbeat_join
    \/ stop
    \/ stop_join
    \/ server_loop_enter
    \/ server_loop_again
    \/ server_loop_error
    \/ server_loop_exit
    \/ heartbeat_loop_cleanup
    \/ heartbeat_loop_sleep
    \/ heartbeat_loop_exit
    \/ sender_heartbeat_loop
    \/ sender_heartbeat_send
    \/ sender_heartbeat_sleep_test
    \/ sender_heartbeat_sleep

ManagerSpec == ManagerInit /\ [][ManagerNext]_vars

\* no call on the SyncManager is under way
ManagerIdle == m_pc = "idle"

\* the server has been started, the socket of the sender is open and its
\* heartbeat is on
AllUp == running /\ socket_fd # -1 /\ sender_fd # -1 /\ heartbeat_running

\* nothing is started: no server, no socket, no heartbeat
AllDown == ~running /\ socket_fd = -1 /\ sender_fd = -1 /\ ~heartbeat_running

\* the step in which a call made as pc returns without more to do
ManagerReturns(pcs) == m_pc \in pcs /\ m_pc' = "idle"

\* the manager and both its parts are as they were
ManagerUntouched ==
    UNCHANGED <<enabled, running, socket_fd, message_callback,
                connected_clients, s_pc, h_pc, senderVars>>

\* C40: between the calls of initialize(), shutdown() and set_enabled(),
\* is_enabled() is true exactly when the server is started and the sender
\* has its socket and its heartbeat, and when it is false nothing is
\* started; a failed start of the server returns with enabled false and
\* nothing started, a failed initialize of the sender goes on to stop the
\* server with enabled false; initialize() on an enabled manager and
\* shutdown() on one that is not enabled change nothing
C40_EnabledIffUp ==
    /\ [](ManagerIdle => (enabled <=> AllUp))
    /\ [](ManagerIdle /\ ~enabled => AllDown)
    /\ [][(ManagerReturns({"initialize", "set_enabled_true"}) /\ ~enabled') =>
            AllDown']_vars
    /\ [][(m_pc \in {"initialize", "set_enabled_true"} /\ m_pc' = "stop") =>
            ~enabled' /\ running' /\ sender_fd' = -1 /\ ~heartbeat_running']_vars
    /\ [][(ManagerReturns({"initialize", "set_enabled_true"}) /\ enabled) =>
            ManagerUntouched]_vars
    /\ [][(ManagerReturns({"shutdown", "set_enabled_false"}) /\ ~enabled) =>
            ManagerUntouched]_vars

\* initialize() has succeeded: the manager is enabled, both threads of the
\* server and the heartbeat thread of the sender are in their loops
C40_EnabledAgain ==
    /\ ManagerIdle
    /\ enabled
    /\ AllUp
    /\ hb_pc = "sleeping" /\ hb_i > 0
    /\ s_pc = "recvfrom"
    /\ h_pc = "sleep"
    /\ hb_sent = <<>>

\* initialize() has been called, no call is under way and nothing is
\* started, as after a failed start or a shutdown()
C40_SenderFailed ==
    /\ ManagerIdle
    /\ ~enabled
    /\ AllDown
    /\ message_callback
    /\ s_pc = "none"

====
